---------------------------- MODULE Spec2Model ----------------------------
(***************************************************************************)
(* Agentic retrieval loop of the legal search agent                        *)
(* (poa_agents/legal_search_agent/project).                                *)
(*                                                                         *)
(* Numbers.  Similarities, thresholds and scores are floats in the source; *)
(* here a similarity or threshold x is the integer 100*x (0.55 -> 55), and *)
(* an average sum/n is compared with a threshold t by sum >= t*n, so no    *)
(* division is taken.  A coverage score is the pair [num, den].            *)
(*                                                                         *)
(* Text.  An article's bilingual text is read by the loop in two ways      *)
(* only: keyword matching per legal area (coverage_analyzer.py:182-198)    *)
(* and citation extraction (crossref_expander.py:65-91).  An article       *)
(* therefore carries keyword_areas (the areas one of whose keywords occurs *)
(* in its text) and cites (the article numbers its Arabic text cites).     *)
(*                                                                         *)
(* A python dict keeps insertion order, so the article map is a sequence   *)
(* of records with pairwise distinct article_number.                       *)
(***************************************************************************)
EXTENDS Integers, Sequences, FiniteSets, TLC

\* ------------------------------------------------------------------ bounds

\* max_iterations of a configuration is drawn from 0..MaxIterationsCfg.
MaxIterationsCfg == 3
\* add_article is applied at most MaxMerges times in SpecState.
MaxMerges == 4
\* article numbers 1..MaxArticleNo in SpecState and SpecCheck.
MaxArticleNo == 3
\* the iteration counter drawn by SpecCheck ranges over 1..MaxIterationDraw.
MaxIterationDraw == 3

\* ------------------------------------------------------- program constants

TopK == 3
TopKThreshold == 65
DirectQueryLimit == 2
GapQueryLimit == 2
MaxRefs == 10
CrossRefSimilarity == 80

\* ------------------------------------------------------------ enumerations

BROAD_RETRIEVAL == "broad_retrieval"
GAP_FILLING == "gap_filling"
REFERENCE_EXPANSION == "reference_expansion"

COVERAGE_THRESHOLD_MET == "coverage_threshold_met"
CONFIDENCE_THRESHOLD_MET == "confidence_threshold_met"
AGENT_SELF_ASSESSMENT == "agent_self_assessment"
DIMINISHING_RETURNS == "diminishing_returns"
MAX_ITERATIONS_REACHED == "max_iterations_reached"
MAX_ARTICLES_REACHED == "max_articles_reached"
MAX_LATENCY_REACHED == "max_latency_reached"
ERROR == "error"

StopReason ==
    { COVERAGE_THRESHOLD_MET, CONFIDENCE_THRESHOLD_MET, AGENT_SELF_ASSESSMENT,
      DIMINISHING_RETURNS, MAX_ITERATIONS_REACHED, MAX_ARTICLES_REACHED,
      MAX_LATENCY_REACHED, ERROR }

\* Optional[...] = None
None == "None"

\* ----------------------------------------------------------- configuration

RetrievalConfig ==
    [ hyde_enabled            |-> TRUE,
      hyde_num_hypotheticals  |-> 2,
      max_iterations          |-> 3,
      max_articles            |-> 30,
      max_latency_ms          |-> 30000,
      coverage_threshold      |-> 80,
      confidence_threshold    |-> 55,
      min_articles            |-> 5,
      min_area_similarity     |-> 50,
      enable_cross_references |-> TRUE,
      enable_coverage_check   |-> TRUE ]

\* ------------------------------------------------------- sequence helpers

RECURSIVE SumSimilarity(_)
SumSimilarity(arts) ==
    IF arts = <<>> THEN 0
    ELSE Head(arts).similarity + SumSimilarity(Tail(arts))

Numbers(arts) == { arts[i].article_number : i \in DOMAIN arts }

\* list(state.articles.keys())
Keys(arts) == [i \in DOMAIN arts |-> arts[i].article_number]

IndexOf(arts, n) == CHOOSE i \in DOMAIN arts : arts[i].article_number = n

\* a set of integers as the ascending sequence (sorted(...))
RECURSIVE SortedSeq(_)
SortedSeq(S) ==
    IF S = {} THEN <<>>
    ELSE LET m == CHOOSE x \in S : \A y \in S : x <= y
         IN  <<m>> \o SortedSeq(S \ {m})

\* ---------------------------------------------------------- RetrievalState

\* The article an add_article call leaves under the number of a: the new one
\* only when its similarity is strictly higher.
AddArticleKeepsFirst(arts, a) ==
    IF a.article_number \in Numbers(arts) THEN arts ELSE Append(arts, a)

add_article(arts, a) ==
    IF a.article_number \in Numbers(arts)
    THEN LET i == IndexOf(arts, a.article_number)
         IN  IF a.similarity > arts[i].similarity
             THEN [arts EXCEPT ![i] = a]
             ELSE arts
    ELSE Append(arts, a)

is_new(arts, a) == a.article_number \notin Numbers(arts)

\* stable insertion of a behind every element that is not smaller
RECURSIVE InsertDesc(_, _)
InsertDesc(sorted, a) ==
    IF sorted = <<>> THEN <<a>>
    ELSE IF Head(sorted).similarity >= a.similarity
         THEN <<Head(sorted)>> \o InsertDesc(Tail(sorted), a)
         ELSE <<a>> \o sorted

RECURSIVE SortDesc(_)
SortDesc(arts) ==
    IF arts = <<>> THEN <<>>
    ELSE InsertDesc(SortDesc(SubSeq(arts, 1, Len(arts) - 1)), arts[Len(arts)])

get_articles_list(arts) == SortDesc(arts)

\* get_avg_similarity() >= t
AvgSimilarityAtLeast(arts, t) ==
    IF arts = <<>> THEN 0 >= t
    ELSE SumSimilarity(arts) >= t * Len(arts)

\* get_top_k_similarity(k) >= t
TopKSimilarityAtLeast(arts, k, t) ==
    IF Len(arts) < k THEN AvgSimilarityAtLeast(arts, t)
    ELSE SumSimilarity(SubSeq(get_articles_list(arts), 1, k)) >= t * k


\* -------------------------------------------------------- CoverageAnalyzer

\* The order of legal_areas in the configuration file, which is the order in
\* which get_required_areas fills its result and analyze_coverage walks it.
AreaOrder == <<"scope", "capacity", "entity">>

AreasInOrder(ra) == SelectSeq(AreaOrder, LAMBDA a : a \in DOMAIN ra)

\* _find_matching_articles: the articles whose text holds a keyword of area
find_matching_articles(arts, area) ==
    SelectSeq(arts, LAMBDA a : area \in a.keyword_areas)

RECURSIVE MaxSimilarity(_)
MaxSimilarity(arts) ==
    IF arts = <<>> THEN 0
    ELSE LET m == MaxSimilarity(Tail(arts))
         IN  IF Head(arts).similarity > m THEN Head(arts).similarity ELSE m

\* a status that looks at the number of matching articles only
AreaStatusByCount(matching, area_config) ==
    IF Len(matching) >= area_config.min_articles THEN "covered"
    ELSE IF Len(matching) > 0 THEN "weak" ELSE "missing"

AreaStatus(matching, area_config) ==
    IF /\ Len(matching) >= area_config.min_articles
       /\ AvgSimilarityAtLeast(matching, area_config.min_similarity)
    THEN "covered"
    ELSE IF Len(matching) > 0 THEN "weak" ELSE "missing"

CoverageStatusOf(arts, area, area_config) ==
    LET matching == find_matching_articles(arts, area)
    IN  [ area_id        |-> area,
          required       |-> area_config.required,
          articles_found |-> [i \in DOMAIN matching |-> matching[i].article_number],
          avg_similarity |-> [num |-> SumSimilarity(matching),
                              den |-> IF matching = <<>> THEN 1 ELSE Len(matching)],
          max_similarity |-> MaxSimilarity(matching),
          status         |-> AreaStatus(matching, area_config) ]

\* the map analyze_coverage returns
analyze_coverage(arts, ra) ==
    [area \in DOMAIN ra |-> CoverageStatusOf(arts, area, ra[area])]

\* the side effect of analyze_coverage on the articles it is given: each area
\* of ra, in order, is appended to every matching article that lacks it
RECURSIVE AppendAreas(_, _, _)
AppendAreas(matched, areas, keyword_areas) ==
    IF areas = <<>> THEN matched
    ELSE LET a == Head(areas)
             m == IF a \in keyword_areas /\ ~(\E i \in DOMAIN matched : matched[i] = a)
                  THEN Append(matched, a) ELSE matched
         IN  AppendAreas(m, Tail(areas), keyword_areas)

\* a marking that appends the area to every matching article, marked or not
MarkAgain(arts, ra) ==
    [i \in DOMAIN arts |->
        [arts[i] EXCEPT !.matched_legal_areas =
            @ \o SelectSeq(AreasInOrder(ra), LAMBDA a : a \in arts[i].keyword_areas)]]

mark_matched_areas(arts, ra) ==
    [i \in DOMAIN arts |->
        [arts[i] EXCEPT !.matched_legal_areas =
            AppendAreas(@, AreasInOrder(ra), arts[i].keyword_areas)]]

get_coverage_summary(cov) == [area \in DOMAIN cov |-> cov[area].status]

\* the required areas that are missing, without the weak ones
GapsOfMissingAreas(cov, ra) ==
    LET gapAreas == SelectSeq(AreasInOrder(cov),
                       LAMBDA a : cov[a].required /\ cov[a].status = "missing")
    IN  [i \in DOMAIN gapAreas |->
            [ area_id              |-> gapAreas[i],
              status               |-> cov[gapAreas[i]].status,
              suggested_queries_ar |-> ra[gapAreas[i]].template_queries_ar ]]

\* the areas that are missing or weak, required or not
GapsOfAllAreas(cov, ra) ==
    LET gapAreas == SelectSeq(AreasInOrder(cov),
                       LAMBDA a : cov[a].status \in {"missing", "weak"})
    IN  [i \in DOMAIN gapAreas |->
            [ area_id              |-> gapAreas[i],
              status               |-> cov[gapAreas[i]].status,
              suggested_queries_ar |-> ra[gapAreas[i]].template_queries_ar ]]

\* identify_gaps: the required areas that are missing or weak, in order
identify_gaps(cov, ra) ==
    LET gapAreas == SelectSeq(AreasInOrder(cov),
                       LAMBDA a : cov[a].required /\ cov[a].status \in {"missing", "weak"})
    IN  [i \in DOMAIN gapAreas |->
            [ area_id              |-> gapAreas[i],
              status               |-> cov[gapAreas[i]].status,
              suggested_queries_ar |-> ra[gapAreas[i]].template_queries_ar ]]

\* a score that counts every area, required or not
ScoreOfAllAreas(cov) ==
    LET covered == { a \in DOMAIN cov : cov[a].status = "covered" }
    IN  IF DOMAIN cov = {} THEN [num |-> 1, den |-> 1]
        ELSE [num |-> Cardinality(covered), den |-> Cardinality(DOMAIN cov)]

\* calculate_coverage_score as the fraction num/den
calculate_coverage_score(cov) ==
    LET required == { a \in DOMAIN cov : cov[a].required }
        covered  == { a \in required : cov[a].status = "covered" }
    IN  IF required = {} THEN [num |-> 1, den |-> 1]
        ELSE [num |-> Cardinality(covered), den |-> Cardinality(required)]

\* score >= t, for a threshold t given in hundredths
ScoreAtLeast(score, t) == score.num * 100 >= t * score.den

\* ------------------------------------------------ _check_end_conditions

\* The stop check with the two quality conditions checked before the caps.
CheckQualityFirst(iteration, arts, total_latency_ms, cov, logs, c) ==
    IF c.enable_coverage_check
       /\ ScoreAtLeast(calculate_coverage_score(cov), c.coverage_threshold)
    THEN <<TRUE, COVERAGE_THRESHOLD_MET>>
    ELSE IF iteration >= c.max_iterations
    THEN <<TRUE, MAX_ITERATIONS_REACHED>>
    ELSE IF Len(arts) >= c.max_articles
    THEN <<TRUE, MAX_ARTICLES_REACHED>>
    ELSE IF total_latency_ms >= c.max_latency_ms
    THEN <<TRUE, MAX_LATENCY_REACHED>>
    ELSE IF /\ Len(arts) >= c.min_articles
            /\ AvgSimilarityAtLeast(arts, c.confidence_threshold)
            /\ TopKSimilarityAtLeast(arts, TopK, TopKThreshold)
    THEN <<TRUE, CONFIDENCE_THRESHOLD_MET>>
    ELSE IF /\ iteration >= 2
            /\ logs # <<>>
            /\ Len(logs[Len(logs)].articles_new) <= 1
    THEN <<TRUE, DIMINISHING_RETURNS>>
    ELSE <<FALSE, COVERAGE_THRESHOLD_MET>>

\* a stop check without the hard caps and without the diminishing-returns
\* test: only the two quality conditions can stop the loop
CheckQualityOnly(iteration, arts, total_latency_ms, cov, logs, c) ==
    IF c.enable_coverage_check
       /\ ScoreAtLeast(calculate_coverage_score(cov), c.coverage_threshold)
    THEN <<TRUE, COVERAGE_THRESHOLD_MET>>
    ELSE IF /\ Len(arts) >= c.min_articles
            /\ AvgSimilarityAtLeast(arts, c.confidence_threshold)
            /\ TopKSimilarityAtLeast(arts, TopK, TopKThreshold)
    THEN <<TRUE, CONFIDENCE_THRESHOLD_MET>>
    ELSE <<FALSE, COVERAGE_THRESHOLD_MET>>

\* a stop check whose diminishing-returns test starts at a given iteration
CheckDiminishingFrom(first, iteration, arts, total_latency_ms, cov, logs, c) ==
    IF iteration >= c.max_iterations
    THEN <<TRUE, MAX_ITERATIONS_REACHED>>
    ELSE IF Len(arts) >= c.max_articles
    THEN <<TRUE, MAX_ARTICLES_REACHED>>
    ELSE IF total_latency_ms >= c.max_latency_ms
    THEN <<TRUE, MAX_LATENCY_REACHED>>
    ELSE IF c.enable_coverage_check
            /\ ScoreAtLeast(calculate_coverage_score(cov), c.coverage_threshold)
    THEN <<TRUE, COVERAGE_THRESHOLD_MET>>
    ELSE IF /\ Len(arts) >= c.min_articles
            /\ AvgSimilarityAtLeast(arts, c.confidence_threshold)
            /\ TopKSimilarityAtLeast(arts, TopK, TopKThreshold)
    THEN <<TRUE, CONFIDENCE_THRESHOLD_MET>>
    ELSE IF /\ iteration >= first
            /\ logs # <<>>
            /\ Len(logs[Len(logs)].articles_new) <= 1
    THEN <<TRUE, DIMINISHING_RETURNS>>
    ELSE <<FALSE, COVERAGE_THRESHOLD_MET>>

\* the diminishing-returns test from iteration 3 on
CheckDiminishingLate(iteration, arts, total_latency_ms, cov, logs, c) ==
    CheckDiminishingFrom(3, iteration, arts, total_latency_ms, cov, logs, c)

\* the diminishing-returns test from iteration 1 on
CheckDiminishingEarly(iteration, arts, total_latency_ms, cov, logs, c) ==
    CheckDiminishingFrom(1, iteration, arts, total_latency_ms, cov, logs, c)

\* a stop check whose iteration cap is never reached
CheckNoIterationCap(iteration, arts, total_latency_ms, cov, logs, c) ==
    CheckDiminishingFrom(2, iteration, arts, total_latency_ms, cov, logs,
                         [c EXCEPT !.max_iterations = iteration + 1])

\* a stop check that never sees the latency spent
CheckNoLatencyCap(iteration, arts, total_latency_ms, cov, logs, c) ==
    CheckDiminishingFrom(2, iteration, arts, 0, cov, logs, c)

check_end_conditions(iteration, arts, total_latency_ms, cov, logs, c) ==
    IF iteration >= c.max_iterations
    THEN <<TRUE, MAX_ITERATIONS_REACHED>>
    ELSE IF Len(arts) >= c.max_articles
    THEN <<TRUE, MAX_ARTICLES_REACHED>>
    ELSE IF total_latency_ms >= c.max_latency_ms
    THEN <<TRUE, MAX_LATENCY_REACHED>>
    ELSE IF c.enable_coverage_check
            /\ ScoreAtLeast(calculate_coverage_score(cov), c.coverage_threshold)
    THEN <<TRUE, COVERAGE_THRESHOLD_MET>>
    ELSE IF /\ Len(arts) >= c.min_articles
            /\ AvgSimilarityAtLeast(arts, c.confidence_threshold)
            /\ TopKSimilarityAtLeast(arts, TopK, TopKThreshold)
    THEN <<TRUE, CONFIDENCE_THRESHOLD_MET>>
    ELSE IF /\ iteration >= 2
            /\ logs # <<>>
            /\ Len(logs[Len(logs)].articles_new) <= 1
    THEN <<TRUE, DIMINISHING_RETURNS>>
    ELSE <<FALSE, COVERAGE_THRESHOLD_MET>>


\* ------------------------------------------------------------ the store

\* The row of article n in the article store: the areas whose keywords its
\* text holds and the article numbers its text cites.  Article n cites
\* article n+1 and itself.
StoreArticle(n) ==
    [ article_number |-> n,
      keyword_areas  |-> {"scope", "capacity", "entity"},
      cites          |-> {n, n + 1} ]

\* a hit of semantic_search: a row with the similarity of this search
Hit(n, sim) ==
    [ article_number |-> n,
      similarity     |-> sim,
      keyword_areas  |-> StoreArticle(n).keyword_areas,
      cites          |-> StoreArticle(n).cites ]

\* -------------------------------------------------------- CrossRefExpander

RefCeiling == 100000

\* a validity test with the range check only
ValidInRange(ref_num, source_article_number) ==
    ref_num >= 1 /\ ref_num <= RefCeiling

\* _is_valid_reference ("if source_article_number and ..." skips the test
\* for a source number of 0 or None)
is_valid_reference(ref_num, source_article_number) ==
    IF source_article_number # 0 /\ ref_num = source_article_number THEN FALSE
    ELSE IF ref_num < 1 THEN FALSE
    ELSE IF ref_num > RefCeiling THEN FALSE
    ELSE TRUE

\* extract_references, on the numbers the citation patterns match in a text
extract_references(cites, source_article_number) ==
    SortedSeq({ n \in cites : is_valid_reference(n, source_article_number) })

SeqToSet(seq) == { seq[i] : i \in DOMAIN seq }

\* every reference of the articles, fetched before or not
AllReferences(arts, already_fetched) ==
    UNION { SeqToSet(extract_references(arts[i].cites, arts[i].article_number)) :
              i \in DOMAIN arts }

get_unique_references(arts, already_fetched) ==
    UNION { { r \in SeqToSet(extract_references(arts[i].cites, arts[i].article_number)) :
                r \notin already_fetched } : i \in DOMAIN arts }

\* the fields of the ArticleResult dataclass, and the keyword arguments its
\* two callers pass to the generated __init__
ArticleResultFields ==
    { "article_number", "text_arabic", "text_english", "hierarchy_path",
      "found_by_query", "found_in_iteration", "similarity",
      "is_cross_reference", "referenced_by", "matched_legal_areas" }

SearchKwargs ==
    { "article_number", "text_arabic", "text_english", "hierarchy_path",
      "citation", "law_id", "found_by_query", "found_in_iteration", "similarity" }

CrossRefKwargs ==
    { "article_number", "text_arabic", "text_english", "hierarchy_path",
      "found_by_query", "found_in_iteration", "similarity",
      "is_cross_reference", "referenced_by" }

\* a dataclass __init__ raises TypeError on a keyword that names no field
ConstructorAccepts(kwargs) == kwargs \subseteq ArticleResultFields

\* create_article_result
create_article_result(article_dict, referenced_by, iteration) ==
    [ article_number      |-> article_dict.article_number,
      similarity          |-> CrossRefSimilarity,
      keyword_areas       |-> article_dict.keyword_areas,
      cites               |-> article_dict.cites,
      found_by_query      |-> "cross_reference",
      found_in_iteration  |-> iteration,
      is_cross_reference  |-> TRUE,
      referenced_by       |-> referenced_by,
      matched_legal_areas |-> <<>> ]

\* the last article, in list order, that cites ref: a later writer overwrites
RefSourceLast(arts, ref) ==
    LET citing == { i \in DOMAIN arts :
                      ref \in SeqToSet(extract_references(arts[i].cites, arts[i].article_number)) }
    IN  IF citing = {} THEN 0
        ELSE arts[CHOOSE i \in citing : \A j \in citing : i >= j].article_number

\* the first article, in list order, that cites ref (ref_sources), 0 if none
RefSource(arts, ref) ==
    LET citing == { i \in DOMAIN arts :
                      ref \in SeqToSet(extract_references(arts[i].cites, arts[i].article_number)) }
    IN  IF citing = {} THEN 0
        ELSE arts[CHOOSE i \in citing : \A j \in citing : i <= j].article_number

\* an expansion that fetches every unfetched reference
ExpandUncapped(arts, already_fetched, iteration, max_refs, lookup) ==
    LET to_fetch_list == SortedSeq(get_unique_references(arts, already_fetched))
        fetched       == SelectSeq(to_fetch_list, LAMBDA n : lookup[n] = "found")
    IN  [ new_articles |-> [i \in DOMAIN fetched |->
                               create_article_result(StoreArticle(fetched[i]),
                                                     RefSource(arts, fetched[i]),
                                                     iteration)],
          fetched_refs |-> to_fetch_list ]

\* expand_with_references.  lookup[n] is what get_article_by_number(n) does:
\* "raise", "none" (no such row) or "found" (the row StoreArticle(n)).
expand_with_references(arts, already_fetched, iteration, max_refs, lookup) ==
    LET to_fetch      == get_unique_references(arts, already_fetched)
        sorted        == SortedSeq(to_fetch)
        to_fetch_list == SubSeq(sorted, 1, IF Len(sorted) < max_refs THEN Len(sorted) ELSE max_refs)
        fetched       == SelectSeq(to_fetch_list, LAMBDA n : lookup[n] = "found")
    IN  IF to_fetch = {}
        THEN [new_articles |-> <<>>, fetched_refs |-> <<>>]
        ELSE [ new_articles |-> [i \in DOMAIN fetched |->
                                   create_article_result(StoreArticle(fetched[i]),
                                                         RefSource(arts, fetched[i]),
                                                         iteration)],
               fetched_refs |-> to_fetch_list ]

\* a log that lists every article of the map as new
AllNumbers(after, before) == SortedSeq(Numbers(after))

\* list(articles_after - articles_before)
NewNumbers(after, before) == SortedSeq(Numbers(after) \ Numbers(before))

RECURSIVE AddAll(_, _)
AddAll(arts, new) ==
    IF new = <<>> THEN arts ELSE AddAll(add_article(arts, Head(new)), Tail(new))


\* --------------------------------------------------------------- the loop

VARIABLES
    \* RetrievalState
    iteration, iteration_logs, articles, coverage, queries_tried,
    cross_refs_fetched, total_llm_calls, total_embedding_calls,
    total_latency_ms, stop_reason,
    \* the arguments of retrieve and the agent's configuration
    config, issues, required_areas,
    \* the locals of retrieve: its position, the log of the running iteration,
    \* the loop cursors, and what it returns
    pc, iteration_log, cur, artifact, returned,
    \* what the collaborators did: whether the last awaited call raised
    \* ("raise") or returned ("ok"), whether any call has raised, whether the
    \* first store search of the session returned the five hits of scenario B
    \* ("B"; "other" if not, "none" before it), and whether a later search or
    \* lookup returned anything
    last_call, any_raised, first_search, later_hits,
    \* SpecState: the articles handed to add_article so far
    merged,
    \* SpecCheck: the pair _check_end_conditions returned
    check_result,
    \* SpecRefs: the numbers the citation patterns match in the text, the
    \* source article number, and the list extract_references returned
    text, source_article_number, references,
    \* SpecExpand: the max_refs argument, what get_article_by_number does for
    \* each number, and the pair expand_with_references returned
    max_refs, lookup, expansion,
    \* SpecScore: the value calculate_coverage_score returned
    score,
    \* SpecRoundTrip: a row of the store, who builds the ArticleResult
    \* ("search" or "crossref"), the ArticleResult, and its dict form
    record, origin, article, as_dict,
    \* SpecHandler: the calls of save_retrieval_artifact so far, whether one
    \* failed, the step whose exception reached the handler's outer except
    \* clause (None if none), and the dicts handed to the synthesizer
    save_attempts, save_failed, handler_error, unique_articles,
    \* SpecPair: the requests the agent serves, the coroutine that runs (1 or
    \* 2), the frame of the suspended coroutine ([pc |-> "none"] when there is
    \* none), whether the agent serves the first request alone ("first"), the
    \* second alone ("second") or both at once ("both"), and what retrieve
    \* returned for each request when it ran alone
    requests, running, parked, stage, alone,
    \* SpecCoverage: the list identify_gaps returned; SpecLookups: the article
    \* numbers get_article_by_number was called with, in the order of the calls
    gap_list, lookups

stateVars == <<iteration, iteration_logs, articles, coverage, queries_tried,
               cross_refs_fetched, total_llm_calls, total_embedding_calls,
               total_latency_ms, stop_reason>>
inputVars == <<config, issues, required_areas>>
localVars == <<pc, iteration_log, cur, artifact, returned>>
envVars   == <<last_call, any_raised, first_search, later_hits>>
refVars   == <<text, source_article_number, references, max_refs, lookup, expansion>>
rtVars      == <<record, origin, article, as_dict>>
handlerVars == <<save_attempts, save_failed, handler_error, unique_articles>>
pairVars    == <<requests, running, parked, stage, alone>>
lastVars    == <<gap_list, lookups>>
laterVars   == <<rtVars, handlerVars, pairVars, lastVars>>
moreVars  == <<refVars, score, laterVars>>
unitVars  == <<merged, check_result, moreVars>>
vars      == <<stateVars, inputVars, localVars, envVars, unitVars>>

\* ---------------------------------------------------------------- inputs

Issue1 == [issue_id |-> "i1", primary_question |-> "pq1",
           search_queries_ar |-> <<"q1", "q2", "q3">>]
Issue2 == [issue_id |-> "i2", primary_question |-> "q1",
           search_queries_ar |-> <<"q1", "q1">>]
Issue3 == [issue_id |-> "i3", primary_question |-> "pq3",
           search_queries_ar |-> <<"q2", "t1">>]

IssueLists == { <<>>, <<Issue2>>, <<Issue1, Issue3>> }

AreaConfig(required, templates) ==
    [ required            |-> required,
      min_similarity      |-> 50,
      min_articles        |-> 1,
      template_queries_ar |-> templates ]

NoAreas == [a \in {} |-> AreaConfig(FALSE, <<>>)]
OneArea == [a \in {"scope"} |-> AreaConfig(TRUE, <<"t1", "t2", "t3">>)]
TwoAreas ==
    [a \in {"scope", "entity"} |->
        IF a = "scope" THEN AreaConfig(TRUE, <<"t1", "t1">>)
        ELSE AreaConfig(FALSE, <<"t4">>)]

\* one area, conditional on an entity the case does not involve
OptionalArea == [a \in {"entity"} |-> AreaConfig(FALSE, <<"t4">>)]

RequiredAreaChoices == { NoAreas, OneArea, TwoAreas, OptionalArea }

\* the default configuration with max_iterations drawn, and the default with
\* one feature flag or cap changed
Configs ==
    { [RetrievalConfig EXCEPT !.max_iterations = m] : m \in 0..MaxIterationsCfg }
    \cup { [RetrievalConfig EXCEPT !.hyde_enabled = FALSE],
           [RetrievalConfig EXCEPT !.enable_coverage_check = FALSE],
           [RetrievalConfig EXCEPT !.enable_cross_references = FALSE],
           [RetrievalConfig EXCEPT !.max_articles = 0] }

IterLatencies == {100, 30000}

ScenarioBHits == <<Hit(1, 90), Hit(2, 85), Hit(3, 80), Hit(4, 70), Hit(5, 60)>>

\* what semantic_search may return, by name
HitLists == [empty |-> <<>>, B |-> ScenarioBHits]

\* the outcomes of one _search_with_embedding: get_embedding raises,
\* semantic_search raises, or semantic_search returns one of HitLists
SearchOutcomes == {"embed_raise", "search_raise", "empty", "B"}

HypPool == <<"h1", "h2", "h3", "h4">>


\* ------------------------------------------------- _search_with_embedding

ArticleResultOfHit(hit, query_text, iter) ==
    [ article_number      |-> hit.article_number,
      similarity          |-> hit.similarity,
      keyword_areas       |-> hit.keyword_areas,
      cites               |-> hit.cites,
      found_by_query      |-> query_text,
      found_in_iteration  |-> iter,
      is_cross_reference  |-> FALSE,
      referenced_by       |-> None,
      matched_legal_areas |-> <<>> ]

\* the exception raised inside the try block of _search_with_embedding, or
\* None: a collaborator's, or the TypeError of ArticleResult(..., citation=,
\* law_id=) at the first hit
SearchException(outcome) ==
    CASE outcome = "embed_raise"  -> "EmbeddingError"
      [] outcome = "search_raise" -> "StoreError"
      [] OTHER -> IF HitLists[outcome] # <<>> /\ ~ConstructorAccepts(SearchKwargs)
                  THEN "TypeError" ELSE None

\* a handler that lets collaborator errors through
CatchesTypeErrorOnly(exception) == exception = "TypeError"

\* "except Exception" of _search_with_embedding
SearchCatches(exception) == TRUE

\* what one call leaves: the article map, the two lists it appends to the
\* query log, and the exception that leaves the call (None when caught)
search_with_embedding(arts, query_text, iter, outcome) ==
    LET exception == SearchException(outcome)
        hits      == HitLists[outcome]
        results   == [i \in DOMAIN hits |-> ArticleResultOfHit(hits[i], query_text, iter)]
    IN  IF exception # None
        THEN [ articles       |-> arts,
               articles_found |-> <<>>,
               similarities   |-> <<>>,
               propagates     |-> ~SearchCatches(exception) ]
        ELSE [ articles       |-> AddAll(arts, results),
               articles_found |-> [i \in DOMAIN hits |-> hits[i].article_number],
               similarities   |-> [i \in DOMAIN hits |-> hits[i].similarity],
               propagates     |-> FALSE ]

\* a log that takes the newest entry at its head
LogQueryFirst(queries, ql) == <<ql>> \o queries

\* iteration_log.queries.append(query_log)
LogQuery(queries, ql) == Append(queries, ql)

QueryLog(owner, kind, n, query_type, query_text, hypothetical, r) ==
    [ query_id               |-> [owner |-> owner, kind |-> kind, n |-> n],
      query_type             |-> query_type,
      query_text             |-> query_text,
      hypothetical_generated |-> hypothetical,
      articles_found         |-> r.articles_found,
      similarities           |-> r.similarities ]

IterationLog(n, purpose) ==
    [ iteration_number   |-> n,
      purpose            |-> purpose,
      queries            |-> <<>>,
      coverage_before    |-> [a \in {} |-> "missing"],
      coverage_after     |-> [a \in {} |-> "missing"],
      gaps_identified    |-> <<>>,
      articles_retrieved |-> <<>>,
      articles_new       |-> <<>>,
      cross_refs_found   |-> <<>>,
      llm_calls          |-> 0,
      embedding_calls    |-> 0,
      latency_ms         |-> 0 ]

NoCursor == [phase |-> "none"]

\* what the environment variables record of one search
IsRaise(outcome) == outcome \in {"embed_raise", "search_raise"}
ReturnsHits(outcome) == outcome = "B"

RecordSearch(outcome) ==
    /\ last_call' = IF IsRaise(outcome) THEN "raise" ELSE "ok"
    /\ any_raised' = (any_raised \/ IsRaise(outcome))
    /\ first_search' = IF first_search # "none" THEN first_search
                       ELSE IF outcome = "B" THEN "B" ELSE "other"
    /\ later_hits' = (later_hits \/ (first_search # "none" /\ ReturnsHits(outcome)))

\* ------------------------------------------------------------------- Init

InitState ==
    /\ iteration = 0
    /\ iteration_logs = <<>>
    /\ articles = <<>>
    /\ coverage = [a \in {} |-> "missing"]
    /\ queries_tried = {}
    /\ cross_refs_fetched = {}
    /\ total_llm_calls = 0
    /\ total_embedding_calls = 0
    /\ total_latency_ms = 0
    /\ stop_reason = None

InitRefs ==
    /\ text = {}
    /\ source_article_number = 0
    /\ references = <<>>
    /\ max_refs = 0
    /\ lookup = <<>>
    /\ expansion = [new_articles |-> <<>>, fetched_refs |-> <<>>]

InitRoundTrip ==
    /\ record = [article_number |-> 0]
    /\ origin = "none"
    /\ article = [raised |-> "none"]
    /\ as_dict = [raised |-> "none"]

InitHandler ==
    /\ save_attempts = 0
    /\ save_failed = FALSE
    /\ handler_error = None
    /\ unique_articles = <<>>

InitPair ==
    /\ requests = <<>>
    /\ running = 1
    /\ parked = [pc |-> "none"]
    /\ stage = "none"
    /\ alone = <<>>

InitLast ==
    /\ gap_list = <<>>
    /\ lookups = <<>>

InitLater ==
    /\ InitRoundTrip
    /\ InitHandler
    /\ InitPair
    /\ InitLast

InitMore ==
    /\ InitRefs
    /\ score = [num |-> 1, den |-> 1]
    /\ InitLater

InitRest ==
    /\ iteration_log = IterationLog(0, None)
    /\ cur = NoCursor
    /\ artifact = [built |-> FALSE]
    /\ returned = <<>>
    /\ last_call = "ok"
    /\ any_raised = FALSE
    /\ first_search = "none"
    /\ later_hits = FALSE
    /\ merged = <<>>
    /\ check_result = <<>>
    /\ InitMore

Init ==
    /\ InitState
    /\ InitRest
    /\ config \in Configs
    /\ issues \in IssueLists
    /\ required_areas \in RequiredAreaChoices
    /\ pc = "loop"


\* --------------------------------------------------------------- retrieve

\* a purpose that stays with gap filling from iteration 2 on
PurposeWithoutExpansion(n) ==
    IF n = 1 THEN BROAD_RETRIEVAL ELSE GAP_FILLING

PurposeOf(n) ==
    IF n = 1 THEN BROAD_RETRIEVAL
    ELSE IF n = 2 THEN GAP_FILLING
    ELSE REFERENCE_EXPANSION

AllMissing(ra) == [a \in DOMAIN ra |-> "missing"]

Min(a, b) == IF a < b THEN a ELSE b

\* the iteration counter is capped so that the state space stays finite
\* under any stop check; no configuration drawn reaches the cap
IterationCap == MaxIterationsCfg + 2

\* retrieve, lines 98-144 up to the first await of the iteration: the counter,
\* the purpose, the new log, coverage_before, and the branch on the purpose.
\* Reference expansion awaits nothing that yields (get_article_by_number is
\* called synchronously), so it runs to its end here.
StartIteration ==
    /\ pc = "loop"
    /\ iteration < IterationCap
    /\ LET n       == iteration + 1
           purpose == PurposeOf(n)
           arts0   == IF articles # <<>>
                      THEN mark_matched_areas(articles, required_areas)
                      ELSE articles
           before  == IF articles # <<>>
                      THEN get_coverage_summary(analyze_coverage(articles, required_areas))
                      ELSE AllMissing(required_areas)
           log0    == [IterationLog(n, purpose) EXCEPT !.coverage_before = before]
       IN  /\ iteration' = n
           /\ CASE purpose = BROAD_RETRIEVAL ->
                   /\ pc' = "broad"
                   /\ cur' = [phase |-> "broad", i |-> 1, stage |-> "issue",
                              hypos |-> <<>>, k |-> 1, q |-> 1]
                   /\ iteration_log' = log0
                   /\ articles' = arts0
                   /\ UNCHANGED <<cross_refs_fetched, envVars>>
                [] purpose = GAP_FILLING ->
                   LET arts1 == mark_matched_areas(arts0, required_areas)
                       gaps  == identify_gaps(analyze_coverage(arts0, required_areas),
                                              required_areas)
                   IN  /\ iteration_log' =
                              [log0 EXCEPT !.gaps_identified =
                                  [i \in DOMAIN gaps |-> gaps[i].area_id]]
                       /\ articles' = arts1
                       /\ IF gaps # <<>>
                          THEN /\ pc' = "gap"
                               /\ cur' = [phase |-> "gap", gaps |-> gaps, g |-> 1, q |-> 1,
                                          articles_before |-> Numbers(arts1)]
                          ELSE /\ pc' = "finish"
                               /\ cur' = NoCursor
                       /\ UNCHANGED <<cross_refs_fetched, envVars>>
                [] purpose = REFERENCE_EXPANSION ->
                   IF config.enable_cross_references
                   THEN \E answers \in [get_unique_references(arts0,
                                          Numbers(arts0) \cup cross_refs_fetched)
                                       -> {"raise", "none", "found"}] :
                          LET already == Numbers(arts0) \cup cross_refs_fetched
                              r       == expand_with_references(arts0, already, n,
                                                                MaxRefs, answers)
                              after   == AddAll(arts0, r.new_articles)
                              asked   == SeqToSet(r.fetched_refs)
                          IN  /\ articles' = after
                              /\ cross_refs_fetched' = cross_refs_fetched \cup asked
                              /\ iteration_log' =
                                    [log0 EXCEPT
                                       !.articles_retrieved = SortedSeq(Numbers(after)),
                                       !.articles_new = NewNumbers(after, arts0),
                                       !.cross_refs_found = r.fetched_refs]
                              /\ last_call' = IF \E x \in asked : answers[x] = "raise"
                                              THEN "raise" ELSE "ok"
                              /\ any_raised' = (any_raised \/
                                                \E x \in asked : answers[x] = "raise")
                              /\ later_hits' = (later_hits \/
                                                \E x \in asked : answers[x] = "found")
                              /\ UNCHANGED first_search
                              /\ pc' = "finish"
                              /\ cur' = NoCursor
                   ELSE /\ iteration_log' = log0
                        /\ articles' = arts0
                        /\ pc' = "finish"
                        /\ cur' = NoCursor
                        /\ UNCHANGED <<cross_refs_fetched, envVars>>
    /\ UNCHANGED <<iteration_logs, coverage, queries_tried, total_llm_calls,
                   total_embedding_calls, total_latency_ms, stop_reason,
                   inputVars, artifact, returned, unitVars>>


\* ------------------------------------------------ _execute_broad_retrieval

\* generate_for_issue makes one generate_multiple_hypotheticals call on a
\* non-empty primary question and one generate_hypothetical call per search
\* query among the first two that is non-empty and not the primary question
MaxHypotheticals(issue, c) ==
    LET qs == issue.search_queries_ar
    IN  (IF issue.primary_question # "" THEN c.hyde_num_hypotheticals ELSE 0)
        + Cardinality({ j \in 1..Min(2, Len(qs)) :
                          qs[j] # "" /\ qs[j] # issue.primary_question })

\* the search queries generate_for_issue asks one hypothetical each for
SingleQueries(issue) ==
    LET qs == issue.search_queries_ar
    IN  SelectSeq(SubSeq(qs, 1, Min(2, Len(qs))),
                  LAMBDA q : q # "" /\ q # issue.primary_question)

\* what generate_multiple_hypotheticals may do for an issue: it is not called
\* (no primary question), its completion call raises and it returns no text
\* (hyde_generator.py:139-142), or it returns up to num_hypotheticals texts
MultiOutcomes(issue, c) ==
    IF issue.primary_question = ""
    THEN { [raised |-> FALSE, count |-> 0] }
    ELSE { [raised |-> TRUE, count |-> 0] }
         \cup { [raised |-> FALSE, count |-> k] : k \in 0..c.hyde_num_hypotheticals }

\* generate_hypothetical: the text, or "" when the completion call raised
\* (hyde_generator.py:90-93)
HypotheticalText(outcome, written) == IF outcome = "raise" THEN "" ELSE written

\* a generator that hands on every text, empty or not
KeepAll(texts) == texts

\* generate_for_issue, "if hypo:" (hyde_generator.py:222-223)
KeepNonEmpty(texts) == SelectSeq(texts, LAMBDA t : t # "")

\* generate_for_issue: the texts of the multiple call, then the kept texts of
\* the single calls; the texts that are not empty are told apart by their
\* place in the list
generate_for_issue(multi, singles) ==
    LET single_texts == [j \in DOMAIN singles |-> HypotheticalText(singles[j], "text")]
        kept         == [k \in 1..multi.count |-> "text"] \o KeepNonEmpty(single_texts)
    IN  [i \in DOMAIN kept |-> IF kept[i] = "" THEN "" ELSE HypPool[i]]

\* The hypotheticals of one issue.  A completion call that raises is caught
\* inside the generator and adds no text.
BeginIssue ==
    /\ pc = "broad"
    /\ cur.stage = "issue"
    /\ cur.i <= Len(issues)
    /\ IF config.hyde_enabled
       THEN \E multi \in MultiOutcomes(issues[cur.i], config),
               singles \in [1..Len(SingleQueries(issues[cur.i])) -> {"ok", "raise"}] :
              LET hypotheticals == generate_for_issue(multi, singles)
                  failed == multi.raised \/ \E j \in DOMAIN singles : singles[j] = "raise"
              IN
              /\ cur' = [cur EXCEPT !.hypos = hypotheticals, !.k = 1, !.q = 1,
                                    !.stage = IF hypotheticals # <<>>
                                              THEN "hyde" ELSE "direct"]
              /\ iteration_log' = [iteration_log EXCEPT !.llm_calls = @ + 1]
              /\ total_llm_calls' = total_llm_calls + 1
              /\ last_call' = IF failed THEN "raise" ELSE "ok"
              /\ any_raised' = (any_raised \/ failed)
       ELSE /\ cur' = [cur EXCEPT !.hypos = <<>>, !.k = 1, !.q = 1, !.stage = "direct"]
            /\ UNCHANGED <<iteration_log, total_llm_calls, last_call, any_raised>>
    /\ UNCHANGED <<iteration, iteration_logs, articles, coverage, queries_tried,
                   cross_refs_fetched, total_embedding_calls, total_latency_ms,
                   stop_reason, inputVars, pc, artifact, returned,
                   first_search, later_hits, unitVars>>

\* lines 200-219: one hypothetical is embedded and searched
SearchHypothetical ==
    /\ pc = "broad"
    /\ cur.stage = "hyde"
    /\ cur.k <= Len(cur.hypos)
    /\ \E outcome \in SearchOutcomes :
         LET issue == issues[cur.i]
             r     == search_with_embedding(articles, cur.hypos[cur.k],
                                            iteration_log.iteration_number, outcome)
             ql    == QueryLog(issue.issue_id, "hyde", cur.k - 1, "hyde",
                               issue.primary_question, cur.hypos[cur.k], r)
         IN  /\ RecordSearch(outcome)
             /\ IF r.propagates
                THEN /\ pc' = "raised"
                     /\ UNCHANGED <<articles, iteration_log, total_embedding_calls, cur>>
                ELSE /\ pc' = pc
                     /\ articles' = r.articles
                     /\ iteration_log' = [iteration_log EXCEPT
                                             !.queries = LogQuery(@, ql),
                                             !.embedding_calls = @ + 1]
                     /\ total_embedding_calls' = total_embedding_calls + 1
                     /\ cur' = [cur EXCEPT !.k = @ + 1,
                                   !.stage = IF cur.k = Len(cur.hypos)
                                             THEN "direct" ELSE "hyde"]
    /\ UNCHANGED <<iteration, iteration_logs, coverage, queries_tried,
                   cross_refs_fetched, total_llm_calls, total_latency_ms,
                   stop_reason, inputVars, artifact, returned, unitVars>>

DirectQueries(issue) ==
    SubSeq(issue.search_queries_ar, 1, Min(DirectQueryLimit, Len(issue.search_queries_ar)))

\* a skip test that never skips
AlwaysUntried(query, tried) == TRUE

\* "if query in state.queries_tried: continue", negated
Untried(query, tried) == query \notin tried

\* lines 224-225: a query already tried is passed over
DirectQuerySkip ==
    /\ pc = "broad"
    /\ cur.stage = "direct"
    /\ cur.q <= Len(DirectQueries(issues[cur.i]))
    /\ ~Untried(DirectQueries(issues[cur.i])[cur.q], queries_tried)
    /\ cur' = [cur EXCEPT !.q = @ + 1]
    /\ UNCHANGED <<stateVars, inputVars, pc, iteration_log, artifact, returned,
                   envVars, unitVars>>

\* lines 226-244: a query not tried yet is recorded, embedded and searched
DirectQuerySearch ==
    /\ pc = "broad"
    /\ cur.stage = "direct"
    /\ cur.q <= Len(DirectQueries(issues[cur.i]))
    /\ Untried(DirectQueries(issues[cur.i])[cur.q], queries_tried)
    /\ \E outcome \in SearchOutcomes :
         LET issue == issues[cur.i]
             query == DirectQueries(issue)[cur.q]
             r     == search_with_embedding(articles, query,
                                            iteration_log.iteration_number, outcome)
             ql    == QueryLog(issue.issue_id, "direct", Len(iteration_log.queries),
                               "direct", query, None, r)
         IN  /\ RecordSearch(outcome)
             /\ queries_tried' = queries_tried \cup {query}
             /\ IF r.propagates
                THEN /\ pc' = "raised"
                     /\ UNCHANGED <<articles, iteration_log, total_embedding_calls, cur>>
                ELSE /\ pc' = pc
                     /\ articles' = r.articles
                     /\ iteration_log' = [iteration_log EXCEPT
                                             !.queries = LogQuery(@, ql),
                                             !.embedding_calls = @ + 1]
                     /\ total_embedding_calls' = total_embedding_calls + 1
                     /\ cur' = [cur EXCEPT !.q = @ + 1]
    /\ UNCHANGED <<iteration, iteration_logs, coverage, cross_refs_fetched,
                   total_llm_calls, total_latency_ms, stop_reason, inputVars,
                   artifact, returned, unitVars>>

\* the for loop over the issues moves on
NextIssue ==
    /\ pc = "broad"
    /\ cur.stage = "direct"
    /\ cur.q > Len(DirectQueries(issues[cur.i]))
    /\ cur' = [cur EXCEPT !.i = @ + 1, !.stage = "issue"]
    /\ UNCHANGED <<stateVars, inputVars, pc, iteration_log, artifact, returned,
                   envVars, unitVars>>

\* lines 246-248
EndBroad ==
    /\ pc = "broad"
    /\ cur.stage = "issue"
    /\ cur.i > Len(issues)
    /\ iteration_log' = [iteration_log EXCEPT
                            !.articles_retrieved = Keys(articles),
                            !.articles_new = Keys(articles)]
    /\ pc' = "finish"
    /\ cur' = NoCursor
    /\ UNCHANGED <<stateVars, inputVars, artifact, returned, envVars, unitVars>>


\* ---------------------------------------------------- _execute_gap_filling

GapQueries(gap) ==
    SubSeq(gap.suggested_queries_ar, 1, Min(GapQueryLimit, Len(gap.suggested_queries_ar)))

\* the text generate_hypothetical returns for a gap query
GapHypothetical == "g1"

\* lines 269-270
GapQuerySkip ==
    /\ pc = "gap"
    /\ cur.g <= Len(cur.gaps)
    /\ cur.q <= Len(GapQueries(cur.gaps[cur.g]))
    /\ ~Untried(GapQueries(cur.gaps[cur.g])[cur.q], queries_tried)
    /\ cur' = [cur EXCEPT !.q = @ + 1]
    /\ UNCHANGED <<stateVars, inputVars, pc, iteration_log, artifact, returned,
                   envVars, unitVars>>

\* lines 271-274 with HyDE off: the query is recorded and nothing is searched
GapQueryNoHyde ==
    /\ pc = "gap"
    /\ cur.g <= Len(cur.gaps)
    /\ cur.q <= Len(GapQueries(cur.gaps[cur.g]))
    /\ Untried(GapQueries(cur.gaps[cur.g])[cur.q], queries_tried)
    /\ ~config.hyde_enabled
    /\ queries_tried' = queries_tried \cup {GapQueries(cur.gaps[cur.g])[cur.q]}
    /\ cur' = [cur EXCEPT !.q = @ + 1]
    /\ UNCHANGED <<iteration, iteration_logs, articles, coverage, cross_refs_fetched,
                   total_llm_calls, total_embedding_calls, total_latency_ms,
                   stop_reason, inputVars, pc, iteration_log, artifact, returned,
                   envVars, unitVars>>

\* lines 271-279 when generate_hypothetical returns "" (its completion call
\* raised, hyde_generator.py:90-93): the probe is skipped
GapQueryHydeFailed ==
    /\ pc = "gap"
    /\ cur.g <= Len(cur.gaps)
    /\ cur.q <= Len(GapQueries(cur.gaps[cur.g]))
    /\ Untried(GapQueries(cur.gaps[cur.g])[cur.q], queries_tried)
    /\ config.hyde_enabled
    /\ queries_tried' = queries_tried \cup {GapQueries(cur.gaps[cur.g])[cur.q]}
    /\ iteration_log' = [iteration_log EXCEPT !.llm_calls = @ + 1]
    /\ total_llm_calls' = total_llm_calls + 1
    /\ last_call' = "raise"
    /\ any_raised' = TRUE
    /\ cur' = [cur EXCEPT !.q = @ + 1]
    /\ UNCHANGED <<iteration, iteration_logs, articles, coverage, cross_refs_fetched,
                   total_embedding_calls, total_latency_ms, stop_reason, inputVars,
                   pc, artifact, returned, first_search, later_hits, unitVars>>

\* lines 271-298: the hypothetical of the query is embedded and searched
GapQuerySearch ==
    /\ pc = "gap"
    /\ cur.g <= Len(cur.gaps)
    /\ cur.q <= Len(GapQueries(cur.gaps[cur.g]))
    /\ Untried(GapQueries(cur.gaps[cur.g])[cur.q], queries_tried)
    /\ config.hyde_enabled
    /\ \E outcome \in SearchOutcomes :
         LET gap   == cur.gaps[cur.g]
             query == GapQueries(gap)[cur.q]
             r     == search_with_embedding(articles, GapHypothetical,
                                            iteration_log.iteration_number, outcome)
             ql    == QueryLog(gap.area_id, "gap", Len(iteration_log.queries),
                               "hyde", query, GapHypothetical, r)
         IN  /\ RecordSearch(outcome)
             /\ queries_tried' = queries_tried \cup {query}
             /\ total_llm_calls' = total_llm_calls + 1
             /\ IF r.propagates
                THEN /\ pc' = "raised"
                     /\ iteration_log' = [iteration_log EXCEPT !.llm_calls = @ + 1]
                     /\ UNCHANGED <<articles, total_embedding_calls, cur>>
                ELSE /\ pc' = pc
                     /\ articles' = r.articles
                     /\ iteration_log' = [iteration_log EXCEPT
                                             !.llm_calls = @ + 1,
                                             !.queries = LogQuery(@, ql),
                                             !.embedding_calls = @ + 1]
                     /\ total_embedding_calls' = total_embedding_calls + 1
                     /\ cur' = [cur EXCEPT !.q = @ + 1]
    /\ UNCHANGED <<iteration, iteration_logs, coverage, cross_refs_fetched,
                   total_latency_ms, stop_reason, inputVars, artifact, returned,
                   unitVars>>

\* the for loop over the gaps moves on
NextGap ==
    /\ pc = "gap"
    /\ cur.g <= Len(cur.gaps)
    /\ cur.q > Len(GapQueries(cur.gaps[cur.g]))
    /\ cur' = [cur EXCEPT !.g = @ + 1, !.q = 1]
    /\ UNCHANGED <<stateVars, inputVars, pc, iteration_log, artifact, returned,
                   envVars, unitVars>>

\* lines 300-303
EndGap ==
    /\ pc = "gap"
    /\ cur.g > Len(cur.gaps)
    /\ iteration_log' = [iteration_log EXCEPT
                            !.articles_retrieved = SortedSeq(Numbers(articles)),
                            !.articles_new =
                                SortedSeq(Numbers(articles) \ cur.articles_before)]
    /\ pc' = "finish"
    /\ cur' = NoCursor
    /\ UNCHANGED <<stateVars, inputVars, artifact, returned, envVars, unitVars>>

\* ------------------------------------------------- the end of an iteration

\* the stop reason retrieve stores after a check, if it stored it always
StoreAlways(result, old) == result[2]

\* lines 164-165: the reason is stored only when the check says stop
StoredStopReason(result, old) == IF result[1] THEN result[2] ELSE old

\* lines 146-167: the latency of the iteration, the coverage recomputed (and
\* the matched areas written into the articles), the log appended, the stop
\* check
FinishIteration ==
    /\ pc = "finish"
    /\ \E latency \in IterLatencies :
         LET cov    == analyze_coverage(articles, required_areas)
             arts1  == mark_matched_areas(articles, required_areas)
             log1   == [iteration_log EXCEPT
                           !.latency_ms = latency,
                           !.coverage_after = get_coverage_summary(cov)]
             logs1  == Append(iteration_logs, log1)
             total  == total_latency_ms + latency
             result == check_end_conditions(iteration, arts1, total, cov, logs1, config)
         IN  /\ total_latency_ms' = total
             /\ coverage' = cov
             /\ articles' = arts1
             /\ iteration_log' = log1
             /\ iteration_logs' = logs1
             /\ stop_reason' = StoredStopReason(result, stop_reason)
             /\ pc' = IF result[1] THEN "build" ELSE "loop"
    /\ UNCHANGED <<iteration, queries_tried, cross_refs_fetched, total_llm_calls,
                   total_embedding_calls, inputVars, cur, artifact, returned,
                   envVars, unitVars>>

\* _build_artifact
build_artifact(st) ==
    [ built                 |-> TRUE,
      iterations            |-> st.iteration_logs,
      final_articles        |-> Keys(get_articles_list(st.articles)),
      final_coverage        |-> get_coverage_summary(st.coverage),
      stop_reason           |-> IF st.stop_reason # None THEN st.stop_reason ELSE "unknown",
      stop_iteration        |-> st.iteration,
      total_iterations      |-> st.iteration,
      total_articles        |-> Len(st.articles),
      total_llm_calls       |-> st.total_llm_calls,
      total_embedding_calls |-> st.total_embedding_calls,
      total_latency_ms      |-> st.total_latency_ms,
      coverage_score        |-> calculate_coverage_score(st.coverage) ]

\* line 175: list(state.articles.values())
ReturnedArticles(arts) == arts

\* lines 169-175
Return ==
    /\ pc = "build"
    /\ artifact' = build_artifact([iteration_logs |-> iteration_logs,
                                   articles |-> articles,
                                   coverage |-> coverage,
                                   stop_reason |-> stop_reason,
                                   iteration |-> iteration,
                                   total_llm_calls |-> total_llm_calls,
                                   total_embedding_calls |-> total_embedding_calls,
                                   total_latency_ms |-> total_latency_ms])
    /\ returned' = ReturnedArticles(articles)
    /\ pc' = "done"
    /\ UNCHANGED <<stateVars, inputVars, iteration_log, cur, envVars, unitVars>>

Next ==
    \/ StartIteration
    \/ BeginIssue
    \/ SearchHypothetical
    \/ DirectQuerySkip
    \/ DirectQuerySearch
    \/ NextIssue
    \/ EndBroad
    \/ GapQuerySkip
    \/ GapQueryNoHyde
    \/ GapQueryHydeFailed
    \/ GapQuerySearch
    \/ NextGap
    \/ EndGap
    \/ FinishIteration
    \/ Return

Spec == Init /\ [][Next]_vars

\* asyncio runs the coroutine on whenever its awaited call has returned or
\* raised, and every awaited call is assumed to do one or the other
FairSpec == Spec /\ WF_vars(Next)


\* ------------------------------------------ RetrievalState, taken alone

\* the similarities of the articles handed to add_article in SpecState
UnitSimilarities == {60, 80, 90}

UnitArticle(n, sim, areas) ==
    [ArticleResultOfHit(Hit(n, sim), "unit", 1) EXCEPT !.keyword_areas = areas]

InitUnit(p) ==
    /\ InitState
    /\ InitRest
    /\ config = RetrievalConfig
    /\ issues = <<>>
    /\ required_areas = NoAreas
    /\ pc = p

\* one add_article call on a fresh or grown state
UnitAddArticle ==
    /\ pc = "state"
    /\ Len(merged) < MaxMerges
    /\ \E n \in 1..MaxArticleNo, sim \in UnitSimilarities :
         LET a == UnitArticle(n, sim, {})
         IN  /\ articles' = add_article(articles, a)
             /\ merged' = Append(merged, a)
    /\ UNCHANGED <<iteration, iteration_logs, coverage, queries_tried,
                   cross_refs_fetched, total_llm_calls, total_embedding_calls,
                   total_latency_ms, stop_reason, inputVars, localVars, envVars,
                   check_result, moreVars>>

\* the return statement of retrieve on the article map built so far
UnitReturn ==
    /\ pc = "state"
    /\ returned' = ReturnedArticles(articles)
    /\ pc' = "returned"
    /\ UNCHANGED <<stateVars, inputVars, iteration_log, cur, artifact, envVars,
                   unitVars>>

NextState == UnitAddArticle \/ UnitReturn

SpecState == InitUnit("state") /\ [][NextState]_vars

\* ------------------------------------- _check_end_conditions, taken alone

\* article maps by the similarities of their articles, numbered 1, 2, ...
DrawnSimilarities ==
    { <<>>, <<90>>, <<50, 40>>, <<90, 85, 80, 70, 60>>, <<60, 60, 60, 60, 60>>,
      <<30, 30, 90, 90, 90>>, <<50, 50, 50, 50, 50>> }

DrawnArticles(sims, areas) == [i \in DOMAIN sims |-> UnitArticle(i, sims[i], areas)]

CheckConfigs ==
    Configs \cup { [RetrievalConfig EXCEPT !.max_articles = 5],
                   [RetrievalConfig EXCEPT !.max_articles = 5, !.max_iterations = 1],
                   [RetrievalConfig EXCEPT !.min_articles = 1],
                   [RetrievalConfig EXCEPT !.enable_coverage_check = FALSE,
                                           !.max_iterations = 1] }

\* the logs of n finished iterations, the last with k new articles
DrawnLogs(n, k) ==
    [i \in 1..n |->
        IF i < n THEN IterationLog(i, PurposeOf(i))
        ELSE [IterationLog(i, PurposeOf(i)) EXCEPT !.articles_new = [j \in 1..k |-> j]]]

InitCheck ==
    /\ InitRest
    /\ pc = "check"
    /\ issues = <<>>
    /\ queries_tried = {}
    /\ cross_refs_fetched = {}
    /\ total_llm_calls = 0
    /\ total_embedding_calls = 0
    /\ stop_reason = None
    /\ config \in CheckConfigs
    /\ required_areas \in RequiredAreaChoices
    /\ iteration \in 1..MaxIterationDraw
    /\ total_latency_ms \in {100, 30000}
    /\ \E sims \in DrawnSimilarities, areas \in {{}, {"scope", "entity"}} :
         /\ articles = mark_matched_areas(DrawnArticles(sims, areas), required_areas)
         /\ coverage = analyze_coverage(articles, required_areas)
         /\ \E k \in 0..Min(2, Len(sims)) : iteration_logs = DrawnLogs(iteration, k)

\* line 163
ApplyCheck ==
    /\ pc = "check"
    /\ check_result' = check_end_conditions(iteration, articles, total_latency_ms,
                                            coverage, iteration_logs, config)
    /\ pc' = "checked"
    /\ UNCHANGED <<stateVars, inputVars, iteration_log, cur, artifact, returned,
                   envVars, merged, moreVars>>

NextCheck == ApplyCheck

SpecCheck == InitCheck /\ [][NextCheck]_vars

\* ------------------------------------------ extract_references, taken alone

\* the numbers a text may cite, and the source article numbers: the ends of
\* the accepted range and a few numbers inside it
RefCandidates == {0, 1, 2, 3, RefCeiling, RefCeiling + 1}

InitExtract ==
    /\ InitState
    /\ iteration_log = IterationLog(0, None)
    /\ cur = NoCursor
    /\ artifact = [built |-> FALSE]
    /\ returned = <<>>
    /\ last_call = "ok"
    /\ any_raised = FALSE
    /\ first_search = "none"
    /\ later_hits = FALSE
    /\ merged = <<>>
    /\ check_result = <<>>
    /\ score = [num |-> 1, den |-> 1]
    /\ InitLater
    /\ max_refs = 0
    /\ lookup = <<>>
    /\ expansion = [new_articles |-> <<>>, fetched_refs |-> <<>>]
    /\ config = RetrievalConfig
    /\ issues = <<>>
    /\ required_areas = NoAreas
    /\ pc = "extract"
    /\ text \in SUBSET RefCandidates
    /\ source_article_number \in RefCandidates
    /\ references = <<>>

\* one extract_references call
ExtractReferences ==
    /\ pc = "extract"
    /\ references' = extract_references(text, source_article_number)
    /\ pc' = "extracted"
    /\ UNCHANGED <<stateVars, inputVars, iteration_log, cur, artifact, returned,
                   envVars, merged, check_result, text, source_article_number,
                   max_refs, lookup, expansion, score, laterVars>>

NextExtract == ExtractReferences

SpecRefs == InitExtract /\ [][NextExtract]_vars

\* --------------------------------------- reference expansion, taken alone

\* the article numbers of SpecExpand range over 1..MaxRefNo
MaxRefNo == 4

\* the max_refs argument ranges over 0..MaxRefsDraw, and the caller's 10
MaxRefsDraw == 2

\* an article of the session with the numbers its text cites
CitingArticle(n, cites) == [UnitArticle(n, 80, {}) EXCEPT !.cites = cites]

\* the article lists of SpecExpand: one article, or two in either order
ExpandArticles ==
    { <<CitingArticle(1, c)>> : c \in SUBSET (1..MaxRefNo) }
    \cup { <<CitingArticle(2, c2), CitingArticle(1, c1)>> :
              c1 \in {{}, {1, 2}, {2, 3}}, c2 \in SUBSET (2..MaxRefNo) }

\* get_article_by_number finds every row but at most one, for which it
\* returns None or raises
LookupChoices ==
    { [n \in 1..MaxRefNo |-> IF n = k THEN m ELSE "found"] :
        k \in 1..MaxRefNo, m \in {"found", "none", "raise"} }

InitExpand ==
    /\ iteration = 3
    /\ iteration_logs = <<>>
    /\ coverage = [a \in {} |-> "missing"]
    /\ queries_tried = {}
    /\ total_llm_calls = 0
    /\ total_embedding_calls = 0
    /\ total_latency_ms = 0
    /\ stop_reason = None
    /\ iteration_log = IterationLog(3, REFERENCE_EXPANSION)
    /\ cur = NoCursor
    /\ artifact = [built |-> FALSE]
    /\ returned = <<>>
    /\ last_call = "ok"
    /\ any_raised = FALSE
    /\ first_search = "none"
    /\ later_hits = FALSE
    /\ merged = <<>>
    /\ check_result = <<>>
    /\ score = [num |-> 1, den |-> 1]
    /\ InitLater
    /\ text = {}
    /\ source_article_number = 0
    /\ references = <<>>
    /\ issues = <<>>
    /\ required_areas = NoAreas
    /\ pc = "expand"
    /\ articles \in ExpandArticles
    /\ cross_refs_fetched \in {{}, {3}}
    /\ max_refs \in (0..MaxRefsDraw) \cup {MaxRefs}
    /\ lookup \in LookupChoices
    /\ expansion = [new_articles |-> <<>>, fetched_refs |-> <<>>]
    \* the stop check before this iteration let the loop go on
    /\ config \in { [RetrievalConfig EXCEPT !.max_articles = m] : m \in {3, 30} }
    /\ Len(articles) < config.max_articles

\* one expand_with_references call
ExpandWithReferences ==
    /\ pc = "expand"
    /\ expansion' = expand_with_references(articles, cross_refs_fetched,
                                           iteration, max_refs, lookup)
    /\ pc' = "called"
    /\ UNCHANGED <<stateVars, inputVars, iteration_log, cur, artifact, returned,
                   envVars, merged, check_result, text, source_article_number,
                   references, max_refs, lookup, score, laterVars>>

\* _execute_reference_expansion, lines 313-333
ExecuteReferenceExpansion ==
    /\ pc = "expand"
    /\ LET already == Numbers(articles) \cup cross_refs_fetched
           r       == expand_with_references(articles, already,
                                             iteration_log.iteration_number,
                                             MaxRefs, lookup)
           after   == AddAll(articles, r.new_articles)
       IN  /\ expansion' = r
           /\ articles' = after
           /\ cross_refs_fetched' = cross_refs_fetched \cup SeqToSet(r.fetched_refs)
           /\ iteration_log' =
                 [iteration_log EXCEPT
                    !.articles_retrieved = SortedSeq(Numbers(after)),
                    !.articles_new = NewNumbers(after, articles),
                    !.cross_refs_found = r.fetched_refs]
    /\ pc' = "expanded"
    /\ UNCHANGED <<iteration, iteration_logs, coverage, queries_tried,
                   total_llm_calls, total_embedding_calls, total_latency_ms,
                   stop_reason, inputVars, cur, artifact, returned, envVars,
                   merged, check_result, text, source_article_number, references,
                   max_refs, lookup, score, laterVars>>

NextExpand == ExpandWithReferences \/ ExecuteReferenceExpansion

SpecExpand == InitExpand /\ [][NextExpand]_vars

\* ------------------------------------ calculate_coverage_score, taken alone

AreaIds == { AreaOrder[i] : i \in DOMAIN AreaOrder }

Statuses == {"covered", "weak", "missing"}

\* the coverage maps: any areas, each required or not, with any status
CoverageMaps ==
    UNION { [D -> [required : BOOLEAN, status : Statuses]] : D \in SUBSET AreaIds }

InitScore ==
    /\ iteration = 1
    /\ iteration_logs = <<>>
    /\ articles = <<>>
    /\ queries_tried = {}
    /\ cross_refs_fetched = {}
    /\ total_llm_calls = 0
    /\ total_embedding_calls = 0
    /\ total_latency_ms = 0
    /\ stop_reason = None
    /\ iteration_log = IterationLog(0, None)
    /\ cur = NoCursor
    /\ artifact = [built |-> FALSE]
    /\ returned = <<>>
    /\ last_call = "ok"
    /\ any_raised = FALSE
    /\ first_search = "none"
    /\ later_hits = FALSE
    /\ merged = <<>>
    /\ check_result = <<>>
    /\ InitRefs
    /\ config = RetrievalConfig
    /\ issues = <<>>
    /\ required_areas = NoAreas
    /\ pc = "score"
    /\ coverage \in CoverageMaps
    /\ score = [num |-> 1, den |-> 1]
    /\ InitLater

\* one calculate_coverage_score call
CalculateCoverageScore ==
    /\ pc = "score"
    /\ score' = calculate_coverage_score(coverage)
    /\ pc' = "scored"
    /\ UNCHANGED <<stateVars, inputVars, iteration_log, cur, artifact, returned,
                   envVars, merged, check_result, refVars, laterVars>>

\* the entry of a non-required area is added, removed or given another
\* status, and the score is calculated again
ChangeOptionalEntry ==
    /\ pc = "scored"
    /\ \E a \in AreaIds :
         /\ a \in DOMAIN coverage => ~coverage[a].required
         /\ \E D \in {DOMAIN coverage \cup {a}, DOMAIN coverage \ {a}}, st \in Statuses :
              /\ coverage' = [b \in D |-> IF b = a
                                           THEN [required |-> FALSE, status |-> st]
                                           ELSE coverage[b]]
              /\ coverage' # coverage
    /\ score' = calculate_coverage_score(coverage')
    /\ UNCHANGED <<iteration, iteration_logs, articles, queries_tried,
                   cross_refs_fetched, total_llm_calls, total_embedding_calls,
                   total_latency_ms, stop_reason, inputVars, localVars, envVars,
                   merged, check_result, refVars, laterVars>>

NextScore == CalculateCoverageScore \/ ChangeOptionalEntry

SpecScore == InitScore /\ [][NextScore]_vars

\* ------------------------------------------- ArticleResult and its dict form

\* the attributes article_result_to_dict reads (acp.py:116-128)
DictReads ==
    { "article_number", "law_id", "text_arabic", "text_english", "hierarchy_path",
      "citation", "similarity", "found_by_query", "found_in_iteration",
      "is_cross_reference", "matched_legal_areas" }

\* reading an attribute that is no field of the dataclass raises AttributeError
ReadsSucceed(attrs) == attrs \subseteq ArticleResultFields

\* the rows of the store, by the fields the round trip is about
StoreRecords ==
    [ article_number : 1..3, text_arabic : {"", "ar"}, text_english : {"", "en"},
      similarity : UnitSimilarities ]

InitConvert ==
    /\ InitState
    /\ iteration_log = IterationLog(0, None)
    /\ cur = NoCursor
    /\ artifact = [built |-> FALSE]
    /\ returned = <<>>
    /\ last_call = "ok"
    /\ any_raised = FALSE
    /\ first_search = "none"
    /\ later_hits = FALSE
    /\ merged = <<>>
    /\ check_result = <<>>
    /\ InitRefs
    /\ score = [num |-> 1, den |-> 1]
    /\ InitHandler
    /\ InitPair
    /\ InitLast
    /\ config = RetrievalConfig
    /\ issues = <<>>
    /\ required_areas = NoAreas
    /\ pc = "record"
    /\ record \in StoreRecords
    /\ origin \in {"search", "crossref"}
    /\ article = [raised |-> "none"]
    /\ as_dict = [raised |-> "none"]

\* the ArticleResult of a row: retrieval_agent.py:365-375 for a hit of a
\* search, crossref_expander.py:215-225 for a fetched reference
ConstructArticleResult ==
    /\ pc = "record"
    /\ article' =
          IF origin = "search"
          THEN IF ConstructorAccepts(SearchKwargs)
               THEN [ raised         |-> "none",
                      article_number |-> record.article_number,
                      text_arabic    |-> record.text_arabic,
                      text_english   |-> record.text_english,
                      similarity     |-> record.similarity ]
               ELSE [raised |-> "TypeError"]
          ELSE IF ConstructorAccepts(CrossRefKwargs)
               THEN [ raised         |-> "none",
                      article_number |-> record.article_number,
                      text_arabic    |-> record.text_arabic,
                      text_english   |-> record.text_english,
                      similarity     |-> CrossRefSimilarity ]
               ELSE [raised |-> "TypeError"]
    /\ pc' = "constructed"
    /\ UNCHANGED <<stateVars, inputVars, iteration_log, cur, artifact, returned,
                   envVars, merged, check_result, refVars, score, record, origin,
                   as_dict, handlerVars, pairVars, lastVars>>

\* article_result_to_dict on an ArticleResult that was built
ArticleResultToDict ==
    /\ pc = "constructed"
    /\ article.raised = "none"
    /\ as_dict' =
          IF ReadsSucceed(DictReads)
          THEN [ raised         |-> "none",
                 article_number |-> article.article_number,
                 text_arabic    |-> article.text_arabic,
                 text_english   |-> article.text_english,
                 text_ar        |-> article.text_arabic,
                 text_en        |-> article.text_english,
                 similarity     |-> article.similarity ]
          ELSE [raised |-> "AttributeError"]
    /\ pc' = "converted"
    /\ UNCHANGED <<stateVars, inputVars, iteration_log, cur, artifact, returned,
                   envVars, merged, check_result, refVars, score, record, origin,
                   article, handlerVars, pairVars, lastVars>>

NextConvert == ConstructArticleResult \/ ArticleResultToDict

SpecRoundTrip == InitConvert /\ [][NextConvert]_vars


\* ------------------------------------- the handler around one retrieve call

\* what save_retrieval_artifact does: the row is inserted; the insert (or the
\* building of the row) raises inside the method's own try, which logs and
\* returns None (supabase_client.py:331-334); or the import of line 255,
\* which stands before that try, raises
SaveOutcomes == {"stored", "insert_raises", "import_raises"}

\* the outcomes in which an exception leaves save_retrieval_artifact
SaveRaises(outcome) == outcome = "import_raises"

\* the outcomes in which no row was written
SaveFails(outcome) == outcome # "stored"

\* a handler whose call of save_retrieval_artifact stands in no try
SaveCatchesNothing(exception) == FALSE

\* acp.py:331-334: try: save_retrieval_artifact(...) except Exception
SaveCatches(exception) == TRUE

\* acp.py:330-334, reached when retrieve has returned (lines 301/317)
SaveRetrievalArtifact ==
    /\ pc = "done"
    /\ \E outcome \in SaveOutcomes :
         LET escapes == SaveRaises(outcome) /\ ~SaveCatches("ImportError")
         IN  /\ save_attempts' = save_attempts + 1
             /\ save_failed' = SaveFails(outcome)
             /\ handler_error' = IF escapes THEN "save" ELSE handler_error
             /\ pc' = IF escapes THEN "error" ELSE "saved"
    /\ UNCHANGED <<stateVars, inputVars, iteration_log, cur, artifact, returned,
                   envVars, merged, check_result, refVars, score, rtVars,
                   unique_articles, pairVars, lastVars>>

\* article_result_to_dict by the fields the synthesizer is handed
DictOf(art) ==
    [ article_number |-> art.article_number, similarity |-> art.similarity ]

\* acp.py:337: the list comprehension over the articles retrieve returned;
\* an AttributeError of article_result_to_dict reaches the except clause of
\* lines 428-433
ConvertArticles ==
    /\ pc = "saved"
    /\ IF returned = <<>> \/ ReadsSucceed(DictReads)
       THEN /\ unique_articles' = [i \in 1..Len(returned) |-> DictOf(returned[i])]
            /\ pc' = "synthesis"
            /\ UNCHANGED handler_error
       ELSE /\ handler_error' = "convert"
            /\ pc' = "error"
            /\ UNCHANGED unique_articles
    /\ UNCHANGED <<stateVars, inputVars, iteration_log, cur, artifact, returned,
                   envVars, merged, check_result, refVars, score, rtVars,
                   save_attempts, save_failed, pairVars, lastVars>>

\* acp.py:359-433: the synthesizer is awaited and the opinion is formatted and
\* returned, or an exception of the synthesizer reaches the except clause and
\* the error text is returned
Respond ==
    /\ pc = "synthesis"
    /\ \E outcome \in {"ok", "raise"} :
         /\ handler_error' = IF outcome = "raise" THEN "synthesis" ELSE handler_error
         /\ pc' = IF outcome = "raise" THEN "error" ELSE "responded"
    /\ UNCHANGED <<stateVars, inputVars, iteration_log, cur, artifact, returned,
                   envVars, merged, check_result, refVars, score, rtVars,
                   save_attempts, save_failed, unique_articles, pairVars, lastVars>>

NextHandler ==
    \/ Next
    \/ SaveRetrievalArtifact
    \/ ConvertArticles
    \/ Respond

SpecHandler == Init /\ [][NextHandler]_vars


\* ------------------------------------ two retrieve calls on the same agent

\* the requests: the issues of a case and the areas get_required_areas
\* returns for its brief
Requests ==
    { [issues |-> <<>>, required_areas |-> NoAreas],
      [issues |-> <<Issue2>>, required_areas |-> OneArea],
      [issues |-> <<Issue1, Issue3>>, required_areas |-> TwoAreas] }

\* the configurations of the agent the two calls run on
PairConfigs == { RetrievalConfig, [RetrievalConfig EXCEPT !.hyde_enabled = FALSE] }

\* The collaborators' answers.  Both calls, and each call when it runs alone,
\* get the same answer to the same question: the outcome of a search is fixed
\* by the text searched, the hypotheticals of an issue by the issue, the
\* failure of a gap hypothetical by the gap query, and every iteration takes
\* the same time.
SearchAnswer(query_text) ==
    CASE query_text = "q1" -> "B"
      [] query_text = "q2" -> "search_raise"
      [] query_text = "h2" -> "embed_raise"
      [] OTHER -> "empty"

HypotheticalsShort(issue) == issue.issue_id = "i3"

HypotheticalsOf(issue, c) ==
    IF HypotheticalsShort(issue) /\ MaxHypotheticals(issue, c) > 0
    THEN MaxHypotheticals(issue, c) - 1
    ELSE MaxHypotheticals(issue, c)

GapHypotheticalFails(query) == query = "t2"

PairLatency == 100

\* the state and the locals of the coroutine that runs
Frame ==
    [ iteration             |-> iteration,
      iteration_logs        |-> iteration_logs,
      articles              |-> articles,
      coverage              |-> coverage,
      queries_tried         |-> queries_tried,
      cross_refs_fetched    |-> cross_refs_fetched,
      total_llm_calls       |-> total_llm_calls,
      total_embedding_calls |-> total_embedding_calls,
      total_latency_ms      |-> total_latency_ms,
      stop_reason           |-> stop_reason,
      issues                |-> issues,
      required_areas        |-> required_areas,
      pc                    |-> pc,
      iteration_log         |-> iteration_log,
      cur                   |-> cur,
      artifact              |-> artifact,
      returned              |-> returned ]

\* retrieve, lines 82-90: the arguments, a new RetrievalState (every mutable
\* field of it from a default_factory) and the areas of the brief
NewFrame(request) ==
    [ iteration             |-> 0,
      iteration_logs        |-> <<>>,
      articles              |-> <<>>,
      coverage              |-> [a \in {} |-> "missing"],
      queries_tried         |-> {},
      cross_refs_fetched    |-> {},
      total_llm_calls       |-> 0,
      total_embedding_calls |-> 0,
      total_latency_ms      |-> 0,
      stop_reason           |-> None,
      issues                |-> request.issues,
      required_areas        |-> request.required_areas,
      pc                    |-> "loop",
      iteration_log         |-> IterationLog(0, None),
      cur                   |-> NoCursor,
      artifact              |-> [built |-> FALSE],
      returned              |-> <<>> ]

\* a RetrievalState kept on the agent: a coroutine finds in a field what the
\* coroutine that ran last left there
OnAgent(own, current) == current

\* line 85: state is a local of the coroutine, so a coroutine finds in a field
\* of its RetrievalState what it left there itself
FrameLocal(own, current) == own

\* the coroutine with frame f runs on
Resume(f) ==
    /\ iteration' = FrameLocal(f.iteration, iteration)
    /\ iteration_logs' = FrameLocal(f.iteration_logs, iteration_logs)
    /\ articles' = FrameLocal(f.articles, articles)
    /\ coverage' = FrameLocal(f.coverage, coverage)
    /\ queries_tried' = FrameLocal(f.queries_tried, queries_tried)
    /\ cross_refs_fetched' = FrameLocal(f.cross_refs_fetched, cross_refs_fetched)
    /\ total_llm_calls' = FrameLocal(f.total_llm_calls, total_llm_calls)
    /\ total_embedding_calls' = FrameLocal(f.total_embedding_calls, total_embedding_calls)
    /\ total_latency_ms' = FrameLocal(f.total_latency_ms, total_latency_ms)
    /\ stop_reason' = FrameLocal(f.stop_reason, stop_reason)
    /\ issues' = f.issues
    /\ required_areas' = f.required_areas
    /\ pc' = f.pc
    /\ iteration_log' = f.iteration_log
    /\ cur' = f.cur
    /\ artifact' = f.artifact
    /\ returned' = f.returned

\* what retrieve returns (line 175)
Returned(f) == [articles |-> f.returned, artifact |-> f.artifact]

InitBoth ==
    /\ config \in PairConfigs
    /\ requests \in Requests \X Requests
    /\ running = 1
    /\ parked = [pc |-> "none"]
    /\ stage = "first"
    /\ alone = <<>>
    /\ InitState
    /\ issues = requests[1].issues
    /\ required_areas = requests[1].required_areas
    /\ pc = "loop"
    /\ iteration_log = IterationLog(0, None)
    /\ cur = NoCursor
    /\ artifact = [built |-> FALSE]
    /\ returned = <<>>
    /\ last_call = "ok"
    /\ any_raised = FALSE
    /\ first_search = "none"
    /\ later_hits = FALSE
    /\ merged = <<>>
    /\ check_result = <<>>
    /\ InitRefs
    /\ score = [num |-> 1, den |-> 1]
    /\ InitRoundTrip
    /\ InitHandler
    /\ InitLast

\* a call that ran alone has returned; what it returned is kept, and the agent
\* is handed the next request, or, after the second, both requests at once
NextRequest ==
    /\ stage \in {"first", "second"}
    /\ pc = "done"
    /\ alone' = Append(alone, Returned(Frame))
    /\ IF stage = "first"
       THEN /\ stage' = "second"
            /\ running' = 2
            /\ Resume(NewFrame(requests[2]))
            /\ parked' = parked
       ELSE /\ stage' = "both"
            /\ running' = 1
            /\ Resume(NewFrame(requests[1]))
            /\ parked' = NewFrame(requests[2])
    /\ UNCHANGED <<config, envVars, merged, check_result, refVars, score, rtVars,
                   handlerVars, lastVars, requests>>

\* The event loop suspends the coroutine that runs and runs the other one on.
\* A coroutine is suspended before its first statement, at an await of the
\* broad or the gap phase, or when it has returned; the model lets it be
\* suspended between any two steps of those phases, which the awaits of the
\* code allow and more.
Switch ==
    /\ stage = "both"
    /\ \/ pc \in {"broad", "gap", "done"}
       \/ pc = "loop" /\ iteration = 0
    /\ parked.pc # "done"
    /\ running' = 3 - running
    /\ parked' = Frame
    /\ Resume(parked)
    /\ UNCHANGED <<config, envVars, merged, check_result, refVars, score, rtVars,
                   handlerVars, lastVars, requests, stage, alone>>

\* the steps of retrieve under the answers above
NextBoth ==
    \/ StartIteration
    \/ BeginIssue /\ (config.hyde_enabled =>
                        /\ Len(cur'.hypos) = HypotheticalsOf(issues[cur.i], config)
                        /\ last_call' = IF Len(cur'.hypos) < MaxHypotheticals(issues[cur.i], config)
                                        THEN "raise" ELSE "ok")
    \/ SearchHypothetical /\ RecordSearch(SearchAnswer(cur.hypos[cur.k]))
    \/ DirectQuerySkip
    \/ DirectQuerySearch
          /\ RecordSearch(SearchAnswer(DirectQueries(issues[cur.i])[cur.q]))
    \/ NextIssue
    \/ EndBroad
    \/ GapQuerySkip
    \/ GapQueryNoHyde
    \/ GapQueryHydeFailed /\ GapHypotheticalFails(GapQueries(cur.gaps[cur.g])[cur.q])
    \/ GapQuerySearch
          /\ ~GapHypotheticalFails(GapQueries(cur.gaps[cur.g])[cur.q])
          /\ RecordSearch(SearchAnswer(GapHypothetical))
    \/ NextGap
    \/ EndGap
    \/ FinishIteration /\ total_latency_ms' = total_latency_ms + PairLatency
    \/ Return
    \/ NextRequest
    \/ Switch

SpecPair == InitBoth /\ [][NextBoth]_vars


\* ------------------------------------------ the coverage analyzer, taken alone

\* the areas whose keywords the text of article n holds
UnitKeywords(n) ==
    CASE n = 1 -> {"scope"}
      [] n = 2 -> {"scope", "entity"}
      [] OTHER -> {}

\* the similarities of the articles merged in SpecCoverage
CoverageSimilarities == {40, 60, 80}

AreaConfigWith(required, min_similarity, min_articles) ==
    [ required            |-> required,
      min_similarity      |-> min_similarity,
      min_articles        |-> min_articles,
      template_queries_ar |-> <<"t1">> ]

\* required-areas maps with thresholds other than the defaults
CoverageAreaChoices ==
    { NoAreas, OneArea, TwoAreas, OptionalArea,
      [a \in {"scope", "entity"} |->
          IF a = "scope" THEN AreaConfigWith(TRUE, 70, 2)
          ELSE AreaConfigWith(TRUE, 50, 1)],
      [a \in {"scope", "capacity"} |->
          IF a = "scope" THEN AreaConfigWith(FALSE, 50, 2)
          ELSE AreaConfigWith(TRUE, 0, 0)] }

InitCoverage ==
    /\ InitState
    /\ InitRest
    /\ config = RetrievalConfig
    /\ issues = <<>>
    /\ required_areas \in CoverageAreaChoices
    /\ pc = "collect"

\* a search or a lookup hands one more article to add_article
CoverageAddArticle ==
    /\ pc \in {"collect", "analyzed"}
    /\ \E n \in 1..MaxArticleNo, sim \in CoverageSimilarities :
         articles' = add_article(articles, UnitArticle(n, sim, UnitKeywords(n)))
    /\ pc' = "collect"
    /\ UNCHANGED <<iteration, iteration_logs, coverage, queries_tried,
                   cross_refs_fetched, total_llm_calls, total_embedding_calls,
                   total_latency_ms, stop_reason, inputVars, iteration_log, cur,
                   artifact, returned, envVars, unitVars>>

\* analyze_coverage: the map it returns and the areas it appends to the
\* articles
AnalyzeCoverage ==
    /\ pc = "collect"
    /\ coverage' = analyze_coverage(articles, required_areas)
    /\ articles' = mark_matched_areas(articles, required_areas)
    /\ pc' = "analyzed"
    /\ UNCHANGED <<iteration, iteration_logs, queries_tried, cross_refs_fetched,
                   total_llm_calls, total_embedding_calls, total_latency_ms,
                   stop_reason, inputVars, iteration_log, cur, artifact, returned,
                   envVars, unitVars>>

\* identify_gaps on the map analyze_coverage returned
IdentifyGaps ==
    /\ pc = "analyzed"
    /\ gap_list' = identify_gaps(coverage, required_areas)
    /\ pc' = "gaps"
    /\ UNCHANGED <<stateVars, inputVars, iteration_log, cur, artifact, returned,
                   envVars, merged, check_result, refVars, score, rtVars,
                   handlerVars, pairVars, lookups>>

NextCoverage == CoverageAddArticle \/ AnalyzeCoverage \/ IdentifyGaps

SpecCoverage == InitCoverage /\ [][NextCoverage]_vars


\* ------------------------------- the loop from iteration 3 on, taken alone

\* The article map after two iterations that found articles: article 1 in
\* the broad iteration, articles 2 and 3 in the gap-filling iteration.
LookupArticles ==
    { <<CitingArticle(1, c1), CitingArticle(2, c2), CitingArticle(3, {})>> :
         c1 \in SUBSET (1..(MaxRefNo + 2)),
         c2 \in {{}, {MaxRefNo}, {MaxRefNo, MaxRefNo + 1}} }

\* configurations under which neither quality condition stops the loop
LookupConfigs ==
    { [RetrievalConfig EXCEPT !.max_iterations = m, !.enable_coverage_check = FALSE,
                              !.confidence_threshold = 90] :
         m \in {MaxIterationsCfg + 1, MaxIterationsCfg + 2} }

\* the logs of the two iterations
LookupLogs ==
    << [IterationLog(1, BROAD_RETRIEVAL) EXCEPT
           !.articles_retrieved = <<1>>, !.articles_new = <<1>>, !.latency_ms = 100],
       [IterationLog(2, GAP_FILLING) EXCEPT
           !.articles_retrieved = <<1, 2, 3>>, !.articles_new = <<2, 3>>,
           !.latency_ms = 100] >>

InitLookups ==
    /\ iteration = 2
    /\ iteration_logs = LookupLogs
    /\ articles \in LookupArticles
    /\ coverage = [a \in {} |-> "missing"]
    /\ queries_tried = {}
    /\ cross_refs_fetched = {}
    /\ total_llm_calls = 0
    /\ total_embedding_calls = 0
    /\ total_latency_ms = 200
    /\ stop_reason = None
    /\ InitRest
    /\ config \in LookupConfigs
    /\ issues = <<>>
    /\ required_areas = NoAreas
    /\ pc = "loop"
    \* the stop check that ended iteration 2 let the loop go on
    /\ ~check_end_conditions(iteration, articles, total_latency_ms, coverage,
                             iteration_logs, config)[1]

\* retrieve, lines 98-144, for an iteration of reference expansion, with
\* _execute_reference_expansion (lines 313-333) and the calls of
\* get_article_by_number that fetch_referenced_articles makes, one for each
\* number of the list in order (crossref_expander.py:183-192)
ExpansionIteration ==
    /\ pc = "loop"
    /\ PurposeOf(iteration + 1) = REFERENCE_EXPANSION
    /\ config.enable_cross_references
    /\ LET n       == iteration + 1
           already == Numbers(articles) \cup cross_refs_fetched
       IN  \E answers \in [get_unique_references(articles, already)
                             -> {"raise", "none", "found"}] :
              LET r     == expand_with_references(articles, already, n, MaxRefs, answers)
                  after == AddAll(articles, r.new_articles)
              IN  /\ iteration' = n
                  /\ articles' = after
                  /\ cross_refs_fetched' = cross_refs_fetched \cup SeqToSet(r.fetched_refs)
                  /\ lookups' = lookups \o r.fetched_refs
                  /\ iteration_log' =
                        [IterationLog(n, REFERENCE_EXPANSION) EXCEPT
                           !.articles_retrieved = SortedSeq(Numbers(after)),
                           !.articles_new = NewNumbers(after, articles),
                           !.cross_refs_found = r.fetched_refs]
    /\ pc' = "finish"
    /\ UNCHANGED <<iteration_logs, coverage, queries_tried, total_llm_calls,
                   total_embedding_calls, total_latency_ms, stop_reason, inputVars,
                   cur, artifact, returned, envVars, merged, check_result, refVars,
                   score, rtVars, handlerVars, pairVars, gap_list>>

NextLookups == ExpansionIteration \/ FinishIteration \/ Return

SpecLookups == InitLookups /\ [][NextLookups]_vars


\* ------------------------------------------------------------- the claims

\* C1.  After any sequence of add_article calls the article map holds exactly
\* one record for every article number that was merged and none for any
\* other, and the similarity of that record is the maximum of the
\* similarities of the merged records with that number.
MergedWith(n) == { j \in DOMAIN merged : merged[j].article_number = n }

C1_DedupeKeepsMax ==
    /\ \A n \in 1..MaxArticleNo :
         Cardinality({ i \in DOMAIN articles : articles[i].article_number = n })
            = IF MergedWith(n) = {} THEN 0 ELSE 1
    /\ \A i \in DOMAIN articles :
         /\ \E j \in MergedWith(articles[i].article_number) :
              merged[j].similarity = articles[i].similarity
         /\ \A j \in MergedWith(articles[i].article_number) :
              merged[j].similarity <= articles[i].similarity

\* one number merged three times, the highest similarity neither first nor last
C1_Witness ==
    \E i, j, k \in DOMAIN merged :
        /\ i < j /\ j < k
        /\ merged[i].article_number = merged[j].article_number
        /\ merged[j].article_number = merged[k].article_number
        /\ merged[i].similarity < merged[j].similarity
        /\ merged[k].similarity < merged[j].similarity
        /\ \E a \in DOMAIN articles :
             /\ articles[a].article_number = merged[j].article_number
             /\ articles[a].similarity = merged[j].similarity

\* The six stop conditions of section 4.4, each on its own.  The coverage
\* condition is tested only when the coverage check is enabled
\* (retrieval_agent.py:416).
ConditionHolds(reason) ==
    CASE reason = MAX_ITERATIONS_REACHED -> iteration >= config.max_iterations
      [] reason = MAX_ARTICLES_REACHED -> Len(articles) >= config.max_articles
      [] reason = MAX_LATENCY_REACHED -> total_latency_ms >= config.max_latency_ms
      [] reason = COVERAGE_THRESHOLD_MET ->
            /\ config.enable_coverage_check
            /\ LET required == { a \in DOMAIN coverage : coverage[a].required }
                   covered  == { a \in required : coverage[a].status = "covered" }
               IN  IF required = {} THEN 100 >= config.coverage_threshold
                   ELSE 100 * Cardinality(covered)
                           >= config.coverage_threshold * Cardinality(required)
      [] reason = CONFIDENCE_THRESHOLD_MET ->
            /\ Len(articles) >= config.min_articles
            /\ AvgSimilarityAtLeast(articles, config.confidence_threshold)
            /\ TopKSimilarityAtLeast(articles, TopK, TopKThreshold)
      [] reason = DIMINISHING_RETURNS ->
            /\ iteration >= 2
            /\ iteration_logs # <<>>
            /\ Len(iteration_logs[Len(iteration_logs)].articles_new) <= 1
      [] OTHER -> FALSE

StopOrder ==
    << MAX_ITERATIONS_REACHED, MAX_ARTICLES_REACHED, MAX_LATENCY_REACHED,
       COVERAGE_THRESHOLD_MET, CONFIDENCE_THRESHOLD_MET, DIMINISHING_RETURNS >>

SixReasons == { StopOrder[i] : i \in DOMAIN StopOrder }

\* C2.  The stop check says stop exactly when one of the six conditions
\* holds, and then reports the first one, in the order of StopOrder, that
\* holds.
C2_FirstConditionWins ==
    pc = "checked" =>
        LET holding == { i \in DOMAIN StopOrder : ConditionHolds(StopOrder[i]) }
        IN  /\ check_result[1] = (holding # {})
            /\ holding # {} =>
                 check_result[2] = StopOrder[CHOOSE i \in holding : \A j \in holding : i <= j]

\* the iteration cap and the coverage threshold hold together
C2_Witness ==
    /\ pc = "checked"
    /\ ConditionHolds(MAX_ITERATIONS_REACHED)
    /\ ConditionHolds(COVERAGE_THRESHOLD_MET)
    /\ ConditionHolds(CONFIDENCE_THRESHOLD_MET)
    /\ check_result = <<TRUE, MAX_ITERATIONS_REACHED>>

\* C3.  Every call of retrieve returns: under the fairness of FairSpec the
\* loop reaches its return statement, and the cap on the iteration counter
\* (which only bounds the model) never holds an iteration back.
C3_RetrieveTerminates ==
    /\ [](pc = "loop" => iteration < IterationCap)
    /\ <>(pc = "done")

\* a session in which no search returned anything and neither quality
\* condition stopped the loop
C3_Witness ==
    /\ pc = "done"
    /\ first_search = "other"
    /\ ~later_hits
    /\ Len(iteration_logs) = 2
    /\ stop_reason \notin {COVERAGE_THRESHOLD_MET, CONFIDENCE_THRESHOLD_MET}

\* C4.  A stop reason is stored only once the loop has stopped; it is then
\* one of the six reasons and its condition holds in the state of the final
\* check; the artifact carries that reason, never "unknown"; and while the
\* loop runs (the check said continue) nothing is stored.
C4_StopReasonExplicit ==
    /\ pc \in {"loop", "broad", "gap", "finish"} => stop_reason = None
    /\ pc \in {"build", "done"} =>
          /\ stop_reason \in SixReasons
          /\ ConditionHolds(stop_reason)
    /\ pc = "done" =>
          /\ artifact.built
          /\ artifact.stop_reason = stop_reason
          /\ artifact.stop_reason \notin {None, "unknown"}

\* a session whose first check said continue (and returned the placeholder)
C4_Witness ==
    /\ pc = "done"
    /\ Len(iteration_logs) = 2
    /\ artifact.stop_reason = DIMINISHING_RETURNS
    /\ ~ConditionHolds(COVERAGE_THRESHOLD_MET)

RECURSIVE FlattenQueries(_)
FlattenQueries(logs) ==
    IF logs = <<>> THEN <<>>
    ELSE FlattenQueries(SubSeq(logs, 1, Len(logs) - 1)) \o logs[Len(logs)].queries

AllQueryLogs ==
    FlattenQueries(iteration_logs)
        \o (IF pc \in {"broad", "gap", "finish"} THEN iteration_log.queries ELSE <<>>)

DirectTexts(logs) ==
    { logs[i].query_text : i \in { j \in DOMAIN logs : logs[j].query_id.kind = "direct" } }

ExpectedDirect ==
    UNION { SeqToSet(DirectQueries(issues[i])) : i \in DOMAIN issues }

\* C6.  No exception of the embedding client, the store or the record
\* constructor leaves retrieve; a search call that failed adds no article;
\* the other queries of the iteration are still searched (iteration 1 ends
\* with every direct query of every issue logged); and a session in which a
\* call failed returns an artifact with one of the six stop reasons.
C6_FailuresAreContained ==
    /\ [](pc # "raised")
    /\ [][last_call' = "raise" /\ total_embedding_calls' # total_embedding_calls
             => articles' = articles]_vars
    /\ [](pc = "finish" /\ iteration = 1
             => DirectTexts(iteration_log.queries) = ExpectedDirect)
    /\ [](pc = "done" => artifact.built /\ artifact.stop_reason \in SixReasons)
    /\ (any_raised ~> pc = "done")

\* a call raised, at least three searches were logged, and retrieve returned
C6_Witness ==
    /\ pc = "done"
    /\ any_raised
    /\ first_search = "other"
    /\ Len(AllQueryLogs) >= 3
    /\ artifact.built

\* scenario A: default configuration, one issue, a required area, and a
\* store that returned no article to any search
ScenarioA ==
    /\ config = RetrievalConfig
    /\ Len(issues) = 1
    /\ \E a \in DOMAIN required_areas : required_areas[a].required
    /\ first_search = "other"
    /\ ~later_hits

\* C7 as stated: scenario A runs three iterations and ends with
\* MAX_ITERATIONS_REACHED, no article and coverage score 0.0.
C7_AsStated ==
    pc = "done" /\ ScenarioA =>
        /\ artifact.total_iterations = 3
        /\ artifact.stop_reason = MAX_ITERATIONS_REACHED
        /\ artifact.total_articles = 0
        /\ artifact.coverage_score.num = 0

\* C7, amended.  Scenario A ends with no article and coverage score 0.0
\* before a third iteration: with the latency budget not reached, after
\* iteration 2 with DIMINISHING_RETURNS; with the budget reached, with
\* MAX_LATENCY_REACHED.
C7_ScenarioA ==
    pc = "done" /\ ScenarioA =>
        /\ artifact.total_articles = 0
        /\ artifact.coverage_score.num = 0
        /\ artifact.total_iterations <= 2
        /\ IF total_latency_ms < config.max_latency_ms
           THEN /\ artifact.total_iterations = 2
                /\ artifact.stop_reason = DIMINISHING_RETURNS
           ELSE artifact.stop_reason = MAX_LATENCY_REACHED

C7_Witness ==
    /\ pc = "done"
    /\ ScenarioA
    /\ artifact.total_iterations = 2
    /\ artifact.stop_reason = DIMINISHING_RETURNS
    /\ artifact.total_embedding_calls > 0

\* scenario B: default configuration, and the first search of iteration 1
\* returned the five hits of ScenarioBHits, which cover every area
ScenarioB ==
    /\ config = RetrievalConfig
    /\ first_search = "B"
    /\ ~later_hits
    /\ iteration_logs # <<>>
    /\ iteration_logs[1].queries # <<>>

\* C8.  Scenario B stops after iteration 1 with COVERAGE_THRESHOLD_MET or
\* CONFIDENCE_THRESHOLD_MET and returns exactly the five articles.
C8_ScenarioB ==
    pc = "done" /\ ScenarioB =>
        /\ artifact.total_iterations = 1
        /\ artifact.stop_reason \in {COVERAGE_THRESHOLD_MET, CONFIDENCE_THRESHOLD_MET}
        /\ Len(returned) = 5

\* C9.  DIMINISHING_RETURNS is never the reason after iteration 1; and once
\* iteration 2 has added at most one new article the loop has stopped, a
\* third iteration never starts, and the reason is DIMINISHING_RETURNS
\* unless one of the five earlier conditions holds.
C9_DiminishingReturns ==
    /\ stop_reason = DIMINISHING_RETURNS => iteration >= 2
    /\ (Len(iteration_logs) >= 2 /\ Len(iteration_logs[2].articles_new) <= 1) =>
          /\ iteration = 2
          /\ pc \in {"build", "done"}
          /\ (\A i \in 1..5 : ~ConditionHolds(StopOrder[i]))
                => stop_reason = DIMINISHING_RETURNS

\* iteration 1 added nothing and went on; iteration 2 added nothing and stopped
C9_Witness ==
    /\ pc = "done"
    /\ iteration = 2
    /\ Len(iteration_logs[1].articles_new) = 0
    /\ Len(iteration_logs[2].articles_new) = 0
    /\ iteration_logs[2].queries # <<>>
    /\ stop_reason = DIMINISHING_RETURNS

DirectAndGap ==
    { i \in DOMAIN AllQueryLogs : AllQueryLogs[i].query_id.kind \in {"direct", "gap"} }

\* C10.  No direct or gap query string is searched twice in a session: the
\* direct and gap query logs carry pairwise different query strings, each of
\* them recorded as tried, and every embedding call has its query log, so a
\* query that was passed over cost no embedding call.
C10_NoQueryTwice ==
    /\ \A i, j \in DirectAndGap :
          AllQueryLogs[i].query_text = AllQueryLogs[j].query_text => i = j
    /\ \A i \in DirectAndGap : AllQueryLogs[i].query_text \in queries_tried
    /\ pc \in {"loop", "broad", "gap", "finish", "build", "done"}
          => total_embedding_calls = Len(AllQueryLogs)

\* q2 was passed over for the second issue in iteration 1, and the template
\* t1, searched as a direct query in iteration 1, was passed over in iteration 2
C10_Witness ==
    /\ pc = "done"
    /\ Len(issues) = 2
    /\ Cardinality({ i \in DirectAndGap : AllQueryLogs[i].query_text = "q2" }) = 1
    /\ \E i \in DirectAndGap :
          /\ AllQueryLogs[i].query_text = "t1"
          /\ AllQueryLogs[i].query_id.kind = "direct"
    /\ \E i \in DirectAndGap :
          /\ AllQueryLogs[i].query_text = "t2"
          /\ AllQueryLogs[i].query_id.kind = "gap"

\* C11.  extract_references(text, N) never returns N, returns only numbers
\* the text cites that are at least 1 and not above the ceiling (100000
\* itself is accepted), every such number but N, and returns them in
\* ascending order without duplicates.
C11_NoSelfReference ==
    pc = "extracted" =>
        /\ \A i \in DOMAIN references : references[i] # source_article_number
        /\ \A i \in DOMAIN references :
              references[i] >= 1 /\ references[i] <= RefCeiling
        /\ SeqToSet(references)
              = { n \in text : n >= 1 /\ n <= RefCeiling /\ n # source_article_number }
        /\ \A i \in 1..(Len(references) - 1) : references[i] < references[i + 1]

\* the text cites its own article among others, and numbers off both ends
C11_Witness ==
    /\ pc = "extracted"
    /\ source_article_number \in text
    /\ source_article_number = 2
    /\ {0, RefCeiling + 1} \subseteq text
    /\ references = <<1, 3, RefCeiling>>

\* the references of the given articles that are not fetched yet
Unfetched(arts, already_fetched) ==
    { r \in UNION { arts[i].cites : i \in DOMAIN arts } :
        /\ r >= 1 /\ r <= RefCeiling
        /\ r \notin already_fetched
        /\ \E i \in DOMAIN arts : r \in arts[i].cites /\ r # arts[i].article_number }

\* C12.  expand_with_references returns at most max_refs new articles; the
\* numbers it fetches are the max_refs smallest unfetched references of the
\* given articles (all of them when there are fewer); the new articles are
\* the fetched numbers the store holds; and a number cited only by an article
\* fetched in this call is not fetched.
C12_ReferenceFetchCap ==
    pc = "called" =>
        LET U     == Unfetched(articles, cross_refs_fetched)
            asked == SeqToSet(expansion.fetched_refs)
            new   == { expansion.new_articles[i].article_number :
                          i \in DOMAIN expansion.new_articles }
        IN  /\ Len(expansion.new_articles) <= max_refs
            /\ Len(expansion.fetched_refs) <= max_refs
            /\ asked \subseteq U
            /\ Cardinality(asked) = Min(max_refs, Cardinality(U))
            /\ \A a \in asked : \A u \in U \ asked : a < u
            /\ new = { a \in asked : lookup[a] = "found" }
            /\ Cardinality(new) = Len(expansion.new_articles)

\* more unfetched references than max_refs, and the article fetched cites a
\* number that no given article cites
C12_Witness ==
    /\ pc = "called"
    /\ max_refs = 1
    /\ Unfetched(articles, cross_refs_fetched) = {2, 4}
    /\ Len(expansion.new_articles) = 1
    /\ expansion.new_articles[1].article_number = 2
    /\ 3 \in expansion.new_articles[1].cites
    /\ expansion.fetched_refs = <<2>>

RequiredOf(cov) == { a \in DOMAIN cov : cov[a].required }

\* C13.  The score is the number of required areas with status covered
\* divided by the number of required areas, a value in [0,1]; it is 1.0 when
\* no area is required; and it keeps its value when the entry of a
\* non-required area is added, removed or changes status.
C13_CoverageScore ==
    /\ [](pc = "scored" =>
            LET required == RequiredOf(coverage)
                covered  == { a \in required : coverage[a].status = "covered" }
            IN  /\ score.den > 0
                /\ 0 <= score.num /\ score.num <= score.den
                /\ required = {} => score.num = score.den
                /\ required # {} =>
                      score.num * Cardinality(required) = Cardinality(covered) * score.den)
    /\ [][pc = "scored" /\ pc' = "scored"
             => score'.num * score.den = score.num * score'.den]_vars

\* one required area of two is covered, next to a covered non-required one
C13_Witness ==
    /\ pc = "scored"
    /\ DOMAIN coverage = AreaIds
    /\ Cardinality(RequiredOf(coverage)) = 2
    /\ \E a \in AreaIds : ~coverage[a].required /\ coverage[a].status = "covered"
    /\ score = [num |-> 1, den |-> 2]

\* C18.  The purpose of an iteration depends on its number alone: broad
\* retrieval for 1, gap filling for 2, reference expansion from 3 on.  The
\* running iteration has no log yet, every finished one has exactly one, and
\* the logs are numbered 1, 2, ..., n in order.
C18_PhaseByIteration ==
    /\ \A n \in 3..IterationCap : PurposeOf(n) = REFERENCE_EXPANSION
    /\ \A i \in DOMAIN iteration_logs :
          /\ iteration_logs[i].iteration_number = i
          /\ iteration_logs[i].purpose =
                (CASE i = 1 -> BROAD_RETRIEVAL [] i = 2 -> GAP_FILLING
                   [] OTHER -> REFERENCE_EXPANSION)
    /\ pc \in {"broad", "gap", "finish"} =>
          /\ Len(iteration_logs) = iteration - 1
          /\ iteration_log.iteration_number = iteration
          /\ pc = "broad" => iteration = 1
          /\ pc = "gap" => iteration = 2
          /\ iteration_log.purpose =
                (CASE iteration = 1 -> BROAD_RETRIEVAL [] iteration = 2 -> GAP_FILLING
                   [] OTHER -> REFERENCE_EXPANSION)
    /\ pc \in {"loop", "build", "done"} => Len(iteration_logs) = iteration

\* a session of two iterations, both with searches
C18_Witness ==
    /\ pc = "done"
    /\ Len(iteration_logs) = 2
    /\ iteration_logs[1].queries # <<>>
    /\ iteration_logs[2].queries # <<>>
    /\ iteration_logs[2].purpose = GAP_FILLING

\* the query texts logged in one iteration
TextsOf(log) == { log.queries[i].query_text : i \in DOMAIN log.queries }

\* C19.  Once iteration 2 is logged, every one of the first two template
\* queries of every gap it identified was either a direct query of
\* iteration 1 or is the query text of a search logged in iteration 2.
C19_GapQueriesSearched ==
    Len(iteration_logs) >= 2 =>
        \A g \in DOMAIN iteration_logs[2].gaps_identified :
            LET templates ==
                    required_areas[iteration_logs[2].gaps_identified[g]].template_queries_ar
            IN  \A j \in 1..Min(2, Len(templates)) :
                    \/ templates[j] \in DirectTexts(iteration_logs[1].queries)
                    \/ templates[j] \in TextsOf(iteration_logs[2])

\* no required area is missing or weak for the articles of the session
NoRequiredGap ==
    \A a \in DOMAIN required_areas :
        required_areas[a].required =>
            AreaStatus(find_matching_articles(articles, a), required_areas[a]) = "covered"

\* C20.  When no required area is missing or weak at iteration 2, the
\* iteration identifies no gap and makes no completion, embedding or store
\* call: the step that starts it leaves the article map, queries_tried and
\* the call counters as they were and goes to the end of the iteration with
\* the counter at 2; its log, with no query and no call, is appended, and
\* the stop check follows.
C20_NoGapIteration ==
    /\ [][iteration = 1 /\ iteration' = 2 /\ NoRequiredGap =>
             /\ pc' = "finish"
             /\ iteration_log'.gaps_identified = <<>>
             /\ Numbers(articles') = Numbers(articles)
             /\ UNCHANGED <<queries_tried, cross_refs_fetched, total_llm_calls,
                            total_embedding_calls>>]_vars
    /\ [](Len(iteration_logs) >= 2 /\ NoRequiredGap =>
             /\ iteration_logs[2].queries = <<>>
             /\ iteration_logs[2].llm_calls = 0
             /\ iteration_logs[2].embedding_calls = 0
             /\ iteration_logs[2].articles_new = <<>>)
    /\ [][pc = "finish" =>
             /\ iteration_logs' = Append(iteration_logs, iteration_logs'[Len(iteration_logs')])
             /\ pc' \in {"loop", "build"}
             /\ pc' = "build" <=> stop_reason' # None]_vars

\* an area that is not required is missing, iteration 2 ran without a call,
\* and retrieve returned
C20_Witness ==
    /\ pc = "done"
    /\ required_areas = OptionalArea
    /\ issues # <<>>
    /\ Len(iteration_logs) = 2
    /\ iteration_logs[1].queries # <<>>
    /\ iteration_logs[2].queries = <<>>
    /\ artifact.total_iterations = 2

C16_ArtifactSavedOnce ==
    /\ [](save_attempts <= 1)
    /\ [](handler_error # "save")
    /\ [][save_attempts' # save_attempts =>
              /\ pc = "done"
              /\ artifact.built
              /\ stop_reason # None
              /\ pc' = "saved"]_vars
    /\ [][pc = "saved" =>
              /\ pc' = "synthesis"
              /\ Len(unique_articles') = Len(returned)
              /\ returned' = returned]_vars

\* the write failed and the handler returned the opinion
C16_Witness ==
    /\ pc = "responded"
    /\ save_failed
    /\ save_attempts = 1
    /\ handler_error = None

C21_LatencyBetweenIterations ==
    /\ [][total_latency_ms' # total_latency_ms => pc = "finish"]_vars
    /\ [][pc' = "build" => pc = "finish"]_vars
    /\ [][Numbers(articles) \subseteq Numbers(articles')]_vars
    /\ [][pc = "finish" /\ total_latency_ms' >= config.max_latency_ms =>
              /\ pc' = "build"
              /\ Len(iteration_logs') = iteration
              /\ stop_reason' \in {MAX_ITERATIONS_REACHED, MAX_ARTICLES_REACHED,
                                   MAX_LATENCY_REACHED}
              /\ (iteration < config.max_iterations
                    /\ Len(articles') < config.max_articles
                  => stop_reason' = MAX_LATENCY_REACHED)]_vars

\* retrieve has returned after a first iteration that made searches and went
\* over the latency budget
C21_Witness ==
    /\ pc = "done"
    /\ stop_reason = MAX_LATENCY_REACHED
    /\ iteration = 1
    /\ total_latency_ms >= config.max_latency_ms
    /\ iteration_logs[1].queries # <<>>

\* the articles of the map whose text holds a keyword of the area
MatchingIn(area) == { i \in DOMAIN articles : area \in articles[i].keyword_areas }

RECURSIVE SimilarityOver(_)
SimilarityOver(S) ==
    IF S = {} THEN 0
    ELSE LET i == CHOOSE x \in S : TRUE
         IN  articles[i].similarity + SimilarityOver(S \ {i})

\* enough matching articles, and their average similarity (0 when there is
\* none) at least the minimum of the area
CoveredCondition(area) ==
    LET M == MatchingIn(area)
    IN  /\ Cardinality(M) >= required_areas[area].min_articles
        /\ SimilarityOver(M) >=
              required_areas[area].min_similarity * Cardinality(M)
        /\ M = {} => 0 >= required_areas[area].min_similarity

\* C22.  The map analyze_coverage returns has one entry for every area of the
\* required-areas map and no other; its status is covered iff the matching
\* articles are at least min_articles and their average similarity is at least
\* min_similarity, weak iff some article matches and that fails, and missing
\* otherwise.
C22_StatusDerivation ==
    pc = "analyzed" =>
        /\ DOMAIN coverage = DOMAIN required_areas
        /\ \A area \in DOMAIN coverage :
              /\ coverage[area].status \in {"covered", "weak", "missing"}
              /\ coverage[area].status = "covered" <=> CoveredCondition(area)
              /\ coverage[area].status = "weak" <=>
                    MatchingIn(area) # {} /\ ~CoveredCondition(area)
              /\ coverage[area].status = "missing" <=>
                    MatchingIn(area) = {} /\ ~CoveredCondition(area)

\* one area is covered and another is weak although enough articles match it
C22_Witness ==
    /\ pc = "analyzed"
    /\ \E area \in DOMAIN coverage : coverage[area].status = "covered"
    /\ \E area \in DOMAIN coverage :
          /\ coverage[area].status = "weak"
          /\ Cardinality(MatchingIn(area)) >= required_areas[area].min_articles

\* C23.  The list identify_gaps returns names each required area whose status
\* is missing or weak once, and no covered area and no area that is not
\* required.
C23_GapsAreRequiredAndOpen ==
    pc = "gaps" =>
        /\ { gap_list[i].area_id : i \in DOMAIN gap_list } =
              { a \in DOMAIN coverage :
                   coverage[a].required /\ coverage[a].status \in {"missing", "weak"} }
        /\ \A i, j \in DOMAIN gap_list :
              gap_list[i].area_id = gap_list[j].area_id => i = j

\* a weak required area is a gap while a missing area that is not required
\* is none
C23_Witness ==
    /\ pc = "gaps"
    /\ \E i \in DOMAIN gap_list : gap_list[i].status = "weak"
    /\ \E a \in DOMAIN coverage :
          ~coverage[a].required /\ coverage[a].status = "missing"

\* C27.  After analyze_coverage, for every article of the map and every area
\* of the required-areas map, the area is in the article's matched_legal_areas
\* iff the article's number is in the area's articles_found, and no area occurs
\* twice in a matched_legal_areas list.
C27_MatchedAreasAgree ==
    pc = "analyzed" =>
        \A i \in DOMAIN articles :
            LET matched == articles[i].matched_legal_areas
            IN  /\ \A area \in DOMAIN required_areas :
                      (\E k \in DOMAIN matched : matched[k] = area)
                      <=> (\E k \in DOMAIN coverage[area].articles_found :
                              coverage[area].articles_found[k] =
                                  articles[i].article_number)
                /\ \A k, l \in DOMAIN matched : matched[k] = matched[l] => k = l

\* an article marked with two areas stands in a map of three articles, the
\* last of which was merged after an earlier analysis
C27_Witness ==
    /\ pc = "analyzed"
    /\ Len(articles) = 3
    /\ \E i \in DOMAIN articles : Len(articles[i].matched_legal_areas) = 2

\* the place in the issue list of the issue a log entry belongs to
IssueIndex(entry) ==
    CHOOSE i \in DOMAIN issues : issues[i].issue_id = entry.query_id.owner

\* the query log of iteration 1, while it runs and after it
BroadQueries ==
    IF iteration_logs # <<>> THEN iteration_logs[1].queries
    ELSE IF iteration = 1 THEN iteration_log.queries
    ELSE <<>>

\* C24.  In the query log of iteration 1 no entry of a later issue stands
\* before an entry of an earlier issue, and no direct entry of an issue stands
\* before a HyDE entry of the same issue.
C24_BroadOrder ==
    \A k, l \in DOMAIN BroadQueries :
        k < l =>
            /\ IssueIndex(BroadQueries[k]) <= IssueIndex(BroadQueries[l])
            /\ ~ /\ IssueIndex(BroadQueries[k]) = IssueIndex(BroadQueries[l])
                 /\ BroadQueries[k].query_type = "direct"
                 /\ BroadQueries[l].query_type = "hyde"

\* iteration 1 has ended with HyDE and direct entries of two issues
C24_Witness ==
    /\ iteration_logs # <<>>
    /\ Len(issues) = 2
    /\ \A i \in DOMAIN issues :
          \A t \in {"hyde", "direct"} :
              \E k \in DOMAIN BroadQueries :
                  /\ BroadQueries[k].query_id.owner = issues[i].issue_id
                  /\ BroadQueries[k].query_type = t

\* a step in which a hypothetical generation failed and nothing was searched
GenerationFailed ==
    /\ total_llm_calls' # total_llm_calls
    /\ total_embedding_calls' = total_embedding_calls
    /\ last_call' = "raise"

\* C25.  No text handed to the probes of an issue is empty, every embedding
\* call is the call of a logged query, no logged HyDE query has an empty
\* hypothetical, and a step in which a generation failed leaves the coroutine
\* at the same issue (its remaining texts and direct queries ahead) or moves
\* it to the next query of the same gap.
C25_FailedHypotheticalSkipped ==
    /\ [](pc = "broad" => \A k \in DOMAIN cur.hypos : cur.hypos[k] # "")
    /\ [](total_embedding_calls = Len(AllQueryLogs))
    /\ [](\A k \in DOMAIN AllQueryLogs :
             AllQueryLogs[k].query_type = "hyde" =>
                 AllQueryLogs[k].hypothetical_generated \notin {"", None})
    /\ [][GenerationFailed =>
             /\ pc' = pc
             /\ pc = "broad" => /\ cur'.i = cur.i
                                /\ cur'.stage \in {"hyde", "direct"}
             /\ pc = "gap" => /\ cur'.g = cur.g
                              /\ cur'.q = cur.q + 1]_vars

\* in the gap phase one hypothetical failed and the next query of the gap
\* was searched with its hypothetical
C25_Witness ==
    /\ pc = "gap"
    /\ iteration_log.llm_calls = 2
    /\ iteration_log.embedding_calls = 1
    /\ Len(iteration_log.queries) = 1

\* article i of the list cites number n (and n is not its own number)
Cites(i, n) == n \in articles[i].cites /\ n # articles[i].article_number

\* C26.  Every article expand_with_references returns is flagged
\* is_cross_reference, carries the iteration passed in as found_in_iteration,
\* and names as referenced_by the first article of the list, in list order,
\* that cites it.
C26_FirstCitingArticle ==
    pc = "called" =>
        \A k \in DOMAIN expansion.new_articles :
            LET new == expansion.new_articles[k]
            IN  /\ new.is_cross_reference
                /\ new.found_in_iteration = iteration
                /\ \E i \in DOMAIN articles :
                      /\ Cites(i, new.article_number)
                      /\ \A j \in 1..(i - 1) : ~Cites(j, new.article_number)
                      /\ new.referenced_by = articles[i].article_number

\* two articles cite the fetched one, and the first of the list is not the
\* one with the smaller number
C26_Witness ==
    /\ pc = "called"
    /\ Len(articles) = 2
    /\ articles[1].article_number > articles[2].article_number
    /\ \E k \in DOMAIN expansion.new_articles :
          /\ Cites(1, expansion.new_articles[k].article_number)
          /\ Cites(2, expansion.new_articles[k].article_number)

\* the numbers get_article_by_number is called with in this step
Asked == SubSeq(lookups', Len(lookups) + 1, Len(lookups'))

\* C28.  No article number is looked up twice in a session, and no number is
\* looked up that is in the article map or was looked up in an earlier
\* iteration, found or not.
C28_NoLookupTwice ==
    /\ [](\A k, l \in DOMAIN lookups : lookups[k] = lookups[l] => k = l)
    /\ [][\A k \in DOMAIN Asked :
             /\ Asked[k] \notin Numbers(articles)
             /\ Asked[k] \notin cross_refs_fetched
             /\ Asked[k] \notin SeqToSet(lookups)]_vars

\* a second expansion has made lookups while an article of the map still
\* cites a number the store did not return in the first
C28_Witness ==
    /\ iteration >= 4
    /\ Len(iteration_log.cross_refs_found) > 0
    /\ \E i \in DOMAIN articles :
          \E n \in articles[i].cites :
              /\ n \in cross_refs_fetched
              /\ n \notin Numbers(articles)
              /\ n \notin SeqToSet(iteration_log.cross_refs_found)

\* the article numbers the log of iteration n lists as new
NewIn(n) == SeqToSet(iteration_logs[n].articles_new)

\* C29.  No article number ever leaves the article map, the articles_new
\* lists of different iteration logs have no number in common, and whenever
\* an iteration has been logged, and in the artifact retrieve returns, the
\* numbers of all the lists together are the numbers of the article map.
C29_NewArticlesPartition ==
    /\ [][Numbers(articles) \subseteq Numbers(articles')]_vars
    /\ [](pc \in {"loop", "build", "done"} =>
             /\ \A m, n \in DOMAIN iteration_logs :
                   m # n => NewIn(m) \cap NewIn(n) = {}
             /\ UNION { NewIn(n) : n \in DOMAIN iteration_logs } = Numbers(articles))
    /\ [](pc = "done" =>
             SeqToSet(artifact.final_articles) =
                 UNION { NewIn(n) : n \in DOMAIN iteration_logs })

\* retrieve has returned after two expansions that each brought new articles
C29_Witness ==
    /\ pc = "done"
    /\ Len(iteration_logs) >= 4
    /\ NewIn(3) # {}
    /\ NewIn(4) # {}

\* C30.  Under a configuration with max_iterations at least 1 the iteration
\* counter never exceeds max_iterations, and when retrieve has returned the
\* artifact's total_iterations is the counter and the number of iteration
\* logs.
C30_IterationBound ==
    /\ config.max_iterations >= 1 => iteration <= config.max_iterations
    /\ pc = "done" =>
          /\ artifact.total_iterations = iteration
          /\ artifact.total_iterations = Len(iteration_logs)
          /\ Len(artifact.iterations) = iteration

\* retrieve has returned at the cap of two iterations
C30_Witness ==
    /\ pc = "done"
    /\ config.max_iterations = 2
    /\ iteration = 2
    /\ stop_reason = MAX_ITERATIONS_REACHED

=============================================================================
